---- MODULE Spec2Model ----
(***************************************************************************)
(* Pokestrator: the routing decision engine and the request lifecycle of   *)
(* PokestratorOrchestrator (src/src/agent.py), with the registry           *)
(* (src/src/db.py), the router (src/src/routing.py) and the notification   *)
(* channel (src/src/poke.py).                                              *)
(*                                                                         *)
(* Text is modelled at the level of words: a text is the sequence of its   *)
(* maximal alphanumeric runs.  A capability name auto_stripe_report is the *)
(* sequence <<"auto", "stripe", "report">>.  Python's None is NoneVal.     *)
(* Every suspension point of a request (an await on the registry, on an    *)
(* oracle, on the execution backend or on the notification channel) is one *)
(* value of its pc; an action is the code that runs when that await        *)
(* returns, up to the next suspension.                                     *)
(***************************************************************************)
EXTENDS Integers, Sequences, FiniteSets, TLC

\* environ is os.environ as PokestratorOrchestrator.__init__ reads it: fixed
\* for the life of the process.
\* naming is one call of the name normalisation, character by character; db
\* is the module state of src/src/db.py (_POOL, _INITIALIZED, _INIT_LOCK) with
\* the callers of init_db.
VARIABLES registry, apiKeys, faultsOn, environ, req, naming, db

vars == <<registry, apiKeys, faultsOn, environ, req, naming, db>>

\* ------------------------------------------------------------------ bounds
NumReqs == 2

Reqs == 1..NumReqs

\* --------------------------------------------------------- configuration
route_min_score == 2
route_confident_score == 7
route_confident_margin == 4
route_llm_top_k == 3
route_llm_enabled == environ.POKESTRATOR_ROUTE_LLM_ENABLED = "1"

NoneVal == "None"

STOP_WORDS ==
  {"a", "an", "and", "are", "as", "at", "for", "from", "how", "i", "in", "is",
   "it", "my", "of", "on", "the", "to", "with", "me", "you", "your"}

\* PROVIDER_HINTS restricted to the single-word hints of two providers, in
\* the dictionary's iteration order.
PROVIDER_ORDER == <<"stripe", "twilio">>

PROVIDER_HINTS ==
  [p \in {"stripe", "twilio"} |->
     IF p = "stripe" THEN {"stripe"} ELSE {"twilio", "sms", "mms"}]

\* ------------------------------------------------------------------- text
Range(s) == {s[i] : i \in 1..Len(s)}

\* str.lower() on the words of the model's vocabulary.
Lower(w) ==
  CASE w = "Stripe" -> "stripe"
    [] w = "Payments" -> "payments"
    [] OTHER -> w

LowerText(ws) == [i \in 1..Len(ws) |-> Lower(ws[i])]

\* The same words as an oracle may spell them: differing from the stored
\* spelling by case only.
Capitalize(w) ==
  CASE w = "stripe" -> "Stripe"
    [] w = "payments" -> "Payments"
    [] OTHER -> w

CapitalizeText(ws) == [i \in 1..Len(ws) |-> Capitalize(ws[i])]

\* Mutant: stop words are kept as tokens.
tokenize_KeepsStopWords(ws) == {t \in Range(LowerText(ws)) : Len(t) > 2}

\* SubagentRouter.tokenize
tokenize(ws) ==
  {t \in Range(LowerText(ws)) : Len(t) > 2 /\ t \notin STOP_WORDS}

\* PokestratorOrchestrator._infer_required_provider: the first provider, in
\* dictionary order, one of whose hints occurs in the lower-cased text.
RECURSIVE InferFrom(_, _)
InferFrom(i, ws) ==
  IF i > Len(PROVIDER_ORDER) THEN NoneVal
  ELSE IF PROVIDER_HINTS[PROVIDER_ORDER[i]] \cap Range(LowerText(ws)) # {}
       THEN PROVIDER_ORDER[i]
       ELSE InferFrom(i + 1, ws)

_infer_required_provider(ws) == InferFrom(1, ws)

\* PokestratorOrchestrator._build_new_subagent_name (names of the model's
\* vocabulary stay below the 56 character cut).
_build_new_subagent_name(ws) ==
  IF LowerText(ws) = <<>> THEN <<"auto", "general", "task", "automation">>
  ELSE <<"auto">> \o LowerText(ws)

StartsWithAuto(slug) == Len(slug) >= 2 /\ slug[1] = "auto"

\* PokestratorOrchestrator._normalize_subagent_name (names of the model's
\* vocabulary stay below the 64 character cut).
_normalize_subagent_name(value, fallback) ==
  LET s1 == LowerText(value)
      s2 == IF s1 = <<>> THEN LowerText(fallback) ELSE s1
      s3 == IF s2 = <<>> THEN <<"auto", "general", "task", "automation">> ELSE s2
  IN IF StartsWithAuto(s3) THEN s3 ELSE <<"auto">> \o s3

\* ---------------------------------------------------------------- ranking
\* One entry of rank_existing_subagents.
\* Mutant: a token found in the name and in the description counts twice
\* among the matched tokens.
RankItem_CountsSharedTokenTwice(taskTokens, sa) ==
  LET name_hits == taskTokens \cap tokenize(sa.name)
      description_hits == taskTokens \cap tokenize(sa.description)
  IN [subagent |-> sa,
      score |-> (Cardinality(name_hits) * 3) + Cardinality(description_hits),
      name_hits |-> name_hits,
      description_hits |-> description_hits,
      matched_token_count |-> Cardinality(name_hits) + Cardinality(description_hits)]

RankItem(taskTokens, sa) ==
  LET name_hits == taskTokens \cap tokenize(sa.name)
      description_hits == taskTokens \cap tokenize(sa.description)
  IN [subagent |-> sa,
      score |-> (Cardinality(name_hits) * 3) + Cardinality(description_hits),
      name_hits |-> name_hits,
      description_hits |-> description_hits,
      matched_token_count |-> Cardinality(name_hits \cup description_hits)]

\* Mutant: the sort without reverse=True.
KeyLess_Ascending(a, b) ==
  \/ b.score < a.score
  \/ /\ a.score = b.score
     /\ b.matched_token_count < a.matched_token_count

\* The sort key (score, matched_token_count, len(name_hits)), compared as
\* Python compares tuples.
KeyLess(a, b) ==
  \/ a.score < b.score
  \/ /\ a.score = b.score
     /\ a.matched_token_count < b.matched_token_count
  \/ /\ a.score = b.score
     /\ a.matched_token_count = b.matched_token_count
     /\ Cardinality(a.name_hits) < Cardinality(b.name_hits)

\* Mutant: an unstable sort, in which an item goes before the items whose
\* key equals its own.
RECURSIVE InsertRanked_TiesFirst(_, _)
InsertRanked_TiesFirst(sorted, item) ==
  IF sorted = <<>> THEN <<item>>
  ELSE IF ~KeyLess(item, Head(sorted)) THEN <<item>> \o sorted
       ELSE <<Head(sorted)>> \o InsertRanked_TiesFirst(Tail(sorted), item)

\* list.sort(key, reverse=True) is stable: an item goes after every item
\* whose key is not smaller than its own.
RECURSIVE InsertRanked(_, _)
InsertRanked(sorted, item) ==
  IF sorted = <<>> THEN <<item>>
  ELSE IF KeyLess(Head(sorted), item) THEN <<item>> \o sorted
       ELSE <<Head(sorted)>> \o InsertRanked(Tail(sorted), item)

RECURSIVE RankFrom(_, _, _, _)
RankFrom(i, taskTokens, subagents, acc) ==
  IF i > Len(subagents) THEN acc
  ELSE LET item == RankItem(taskTokens, subagents[i])
       IN RankFrom(i + 1, taskTokens, subagents,
                   IF item.score <= 0 THEN acc ELSE InsertRanked(acc, item))

\* SubagentRouter.rank_existing_subagents
rank_existing_subagents(ws, subagents) ==
  LET taskTokens == tokenize(ws)
  IN IF taskTokens = {} THEN <<>> ELSE RankFrom(1, taskTokens, subagents, <<>>)

\* Mutant: the margin over the second candidate is not required.
is_confident_ranked_match_IgnoresMargin(ranked) ==
  IF ranked = <<>> THEN FALSE
  ELSE /\ ranked[1].score >= route_confident_score
       /\ ranked[1].matched_token_count >= 2

\* SubagentRouter.is_confident_ranked_match
is_confident_ranked_match(ranked) ==
  IF ranked = <<>> THEN FALSE
  ELSE LET top_score == ranked[1].score
           second_score == IF Len(ranked) > 1 THEN ranked[2].score ELSE 0
           margin == top_score - second_score
       IN /\ top_score >= route_confident_score
          /\ margin >= route_confident_margin
          /\ ranked[1].matched_token_count >= 2

\* The Confidence Gate of SubagentRouter.decide_route: the classification
\* of a ranked list before any oracle is consulted.
GateClass(ranked) ==
  IF ranked = <<>> THEN "no_match"
  ELSE IF ranked[1].score < route_min_score THEN "no_match"
  ELSE IF is_confident_ranked_match(ranked) THEN "confident"
  ELSE "ambiguous"

\* Mutant: the whole ranked list is offered.
Prefix_Whole(s, k) == s

\* ranked_matches[: self.route_llm_top_k]
Prefix(s, k) == SubSeq(s, 1, IF Len(s) < k THEN Len(s) ELSE k)


\* --------------------------------------------------------------- registry
\* db.Subagent.  An object that was never persisted has id "" (here 0).
Subagent(id, name, description, system_prompt, status, required_provider) ==
  [id |-> id, name |-> name, description |-> description,
   system_prompt |-> system_prompt, status |-> status,
   required_provider |-> required_provider]

\* The instructions text: the synthesized playbook, with the provider
\* capability instructions appended to it when a provider was inferred.
Prompt(base, provider) == [base |-> base, provider |-> provider]

\* Python's None where a Subagent is expected.
NoSub == Subagent(-1, <<>>, <<>>, Prompt("", NoneVal), "", NoneVal)

SameName(a, b) == LowerText(a) = LowerText(b)

\* SELECT ... WHERE LOWER(name) = LOWER($1) LIMIT 1
RECURSIVE FindFrom(_, _, _)
FindFrom(i, reg, name) ==
  IF i > Len(reg) THEN NoSub
  ELSE IF SameName(reg[i].name, name) THEN reg[i]
       ELSE FindFrom(i + 1, reg, name)

get_subagent_by_name(reg, name) == FindFrom(1, reg, name)

\* Mutant: the table without its unique index.
UniqueViolation_NoIndex(reg, name) == FALSE

\* The unique index idx_subagents_lower_name: an INSERT of a name whose
\* lower-cased form is already stored raises.
UniqueViolation(reg, name) == get_subagent_by_name(reg, name) # NoSub

\* Mutant: every row is stored with the column default of status.
InsertedRow_DefaultStatus(reg, sa) ==
  Subagent(Len(reg) + 1, sa.name, sa.description, sa.system_prompt,
           "ready", sa.required_provider)

\* INSERT INTO subagents ... RETURNING: the row gets a fresh id.
InsertedRow(reg, sa) ==
  Subagent(Len(reg) + 1, sa.name, sa.description, sa.system_prompt,
           sa.status, sa.required_provider)

\* Mutant: the update also rewrites the description.
update_subagent_auth_RewritesDescription(reg, id, status, required_provider) ==
  [i \in 1..Len(reg) |->
     IF reg[i].id = id
     THEN [reg[i] EXCEPT !.status = status,
                         !.required_provider = required_provider,
                         !.description = <<>>]
     ELSE reg[i]]

\* update_subagent_auth: UPDATE subagents SET status, required_provider
\* WHERE id = $1.
update_subagent_auth(reg, id, status, required_provider) ==
  [i \in 1..Len(reg) |->
     IF reg[i].id = id
     THEN [reg[i] EXCEPT !.status = status,
                         !.required_provider = required_provider]
     ELSE reg[i]]

RowById(reg, id) ==
  IF \E i \in 1..Len(reg) : reg[i].id = id
  THEN reg[CHOOSE i \in 1..Len(reg) : reg[i].id = id]
  ELSE NoSub

\* -------------------------------------------------------------- environment
\* What an await on the registry can do: answer, raise, or never answer
\* (asyncpg is called with no timeout).
RegistryOutcomes == IF faultsOn THEN {"ok", "raise", "hang"} ELSE {"ok"}

\* send_poke_message: returns, or raises (POKE_API_KEY missing, network
\* error, non-2xx response).
DeliveryOutcomes == IF faultsOn THEN {"ok", "raise"} ELSE {"ok"}

\* The tasks requests are accepted with.  A task that is not a string is
\* the input on which decide_route raises (task_description.lower()).
Task(words) == [str |-> TRUE, words |-> words]

NotAString == [str |-> FALSE, words |-> <<>>]

NoTask == [str |-> FALSE, words |-> <<"unset">>]

Tasks ==
  {Task(<<"Stripe", "usage">>), Task(<<"disk", "usage">>), NotAString}

\* What the Synthesizer's oracle can answer: a failed or timed-out call,
\* text that is no JSON object, or an object with these fields.
OracleNames == {<<>>, <<"Payments">>}
OracleDescriptions == {<<>>, <<"usage", "report">>}
OraclePrompts == {"", "p1"}

SynthOutcomes ==
  {[kind |-> "raise", name |-> <<>>, description |-> <<>>, system_prompt |-> ""],
   [kind |-> "not_json", name |-> <<>>, description |-> <<>>, system_prompt |-> ""]}
  \cup [kind : {"json"}, name : OracleNames, description : OracleDescriptions,
        system_prompt : OraclePrompts]

\* What the Arbiter's oracle can answer about the candidates offered.
\* Confidence is in hundredths.
route_llm_min_confidence == 60

\* The names a verdict can select: a candidate offered, in its stored
\* spelling or in another case, any other capability of the registry, or a
\* name that no capability has.
SelectableNames(offered) ==
  LET stored == {offered[i].subagent.name : i \in 1..Len(offered)}
                \cup {registry[i].name : i \in 1..Len(registry)}
  IN stored \cup {CapitalizeText(n) : n \in stored} \cup {<<"auto", "unknown">>}

\* No verdict: llm_validate_ranked_match is not running.
NoVerdict == [kind |-> "none", decision |-> "", selected_name |-> <<>>, confidence |-> 0]

\* "sdk_none": claude_sdk is None and the oracle is not called; "raise": the
\* call raised or timed out; "not_json": its text holds no JSON object.
ArbiterOutcomes(offered) ==
  {[kind |-> k, decision |-> "", selected_name |-> <<>>, confidence |-> 0] :
     k \in {"sdk_none", "raise", "not_json"}}
  \cup [kind : {"json"}, decision : {"match", "build_new"},
        selected_name : SelectableNames(offered),
        confidence : {50, 90}]

\* The execution backend's event stream: each event may carry partial text
\* and a declared result ("" when absent).
Event(text, result) == [text |-> text, result |-> result]

Streams ==
  {<<>>, <<Event("a", ""), Event("b", "")>>, <<Event("a", ""), Event("", "r")>>}

\* What the backend can do on the streams given: the SDK is absent, query()
\* raises, the stream outlasts the timeout, the stream ends within it, or
\* the stream raises.
BackendOutcomesOn(streams) ==
  {[kind |-> k, events |-> <<>>] : k \in {"sdk_none", "init_raises", "timeout"}}
  \cup {[kind |-> "stream", events |-> s] : s \in streams}
  \cup (IF faultsOn
        THEN {[kind |-> k, events |-> <<>>] : k \in {"await_raises", "iter_raises"}}
        ELSE {})

BackendOutcomes == BackendOutcomesOn(Streams)

\* No outcome of the backend yet: _run_subagent was not entered.
NoBackend == [kind |-> "none", events |-> <<>>]

\* ------------------------------------------------------------- results
NoResult == [kind |-> "none"]

\* PokestratorOrchestrator._simulate_subagent_response
_simulate_subagent_response(subagent_name, task_description, reason) ==
  [kind |-> "fallback", name |-> subagent_name, reason |-> reason,
   task |-> task_description]

\* PokestratorOrchestrator._build_missing_managed_api_key_message
_build_missing_managed_api_key_message(provider) ==
  [kind |-> "missing_key_message", provider |-> provider]

\* The text extracted from one event by _extract_text: the first string among
\* text and result.
_extract_text(e) == IF e.text # "" THEN e.text ELSE e.result

\* Mutant: the first declared result is kept, not the last.
RECURSIVE ConsumeFrom_KeepsFirstResult(_, _, _, _)
ConsumeFrom_KeepsFirstResult(i, events, final_result, chunks) ==
  IF i > Len(events)
  THEN [final_result |-> final_result, chunks |-> chunks]
  ELSE ConsumeFrom_KeepsFirstResult(
         i + 1, events,
         IF final_result = "" THEN events[i].result ELSE final_result,
         IF _extract_text(events[i]) # ""
         THEN Append(chunks, _extract_text(events[i])) ELSE chunks)

\* consume() of _run_claude_agent on a stream that ends within the timeout.
RECURSIVE ConsumeFrom(_, _, _, _)
ConsumeFrom(i, events, final_result, chunks) ==
  IF i > Len(events)
  THEN [final_result |-> final_result, chunks |-> chunks]
  ELSE ConsumeFrom(i + 1, events,
                   IF events[i].result # "" THEN events[i].result ELSE final_result,
                   IF _extract_text(events[i]) # ""
                   THEN Append(chunks, _extract_text(events[i])) ELSE chunks)

\* Mutant: a stream without output yields the empty text.
consume_NoFallback(events, subagent_name, task_description) ==
  LET c == ConsumeFrom(1, events, "", <<>>)
  IN IF c.final_result # "" THEN [kind |-> "output", lines |-> <<c.final_result>>]
     ELSE [kind |-> "output", lines |-> c.chunks]

consume(events, subagent_name, task_description) ==
  LET c == ConsumeFrom(1, events, "", <<>>)
  IN IF c.final_result # "" THEN [kind |-> "output", lines |-> <<c.final_result>>]
     ELSE IF c.chunks # <<>> THEN [kind |-> "output", lines |-> c.chunks]
     ELSE _simulate_subagent_response(subagent_name, task_description, "no_output")


\* --------------------------------------------------------------- metadata
\* The metadata texts a caller passes: none, a JSON object, the empty JSON
\* object, a JSON value that is no object, and text that is no JSON.
NoMetadata == ""

Metadatas == {NoMetadata, "{\"k\": 1}", "{}", "[1]", "{k"}

\* No dictionary: Python's None where a dict is expected.
NoDict == [type |-> "none", items |-> {}]

\* json.loads on the metadata texts.
json_loads(text) ==
  CASE text = "{\"k\": 1}" -> [type |-> "dict", items |-> {<<"k", 1>>}]
    [] text = "{}" -> [type |-> "dict", items |-> {}]
    [] text = "[1]" -> [type |-> "list", items |-> {<<0, 1>>}]
    [] OTHER -> [type |-> "JSONDecodeError", items |-> {}]

\* PokestratorOrchestrator._parse_metadata: the dict the text holds, else
\* None; the exception of json.loads is swallowed.
_parse_metadata(metadata) ==
  IF metadata = "" THEN NoDict
  ELSE IF json_loads(metadata).type = "dict" THEN json_loads(metadata)
  ELSE NoDict

\* --------------------------------------------------------------- requests
\* One callback handed to send_poke_message: the in-progress notification
\* or a terminal callback, with the outcome of the send.  A key the payload
\* does not have is NoneVal (branch, provider) or NoDict (metadata); body is
\* the payload's result or error.
Callback(request_id, kind, status, task_description, body, branch, provider, metadata, delivered) ==
  [request_id |-> request_id, kind |-> kind, status |-> status,
   task_description |-> task_description, body |-> body,
   branch |-> branch, provider |-> provider, metadata |-> metadata,
   delivered |-> delivered]

\* uuid.uuid4(): no two calls return the same value; the call made for
\* request r returns r.
uuid4(r) == r

NoAck == [status |-> "none", request_id |-> 0]

\* Mutant: the acknowledgment does not carry the id the task was started with.
Acknowledgment_WithoutId(request_id) ==
  [status |-> "accepted", request_id |-> 0]

\* The JSON text server.orchestrate returns.
Acknowledgment(request_id) ==
  [status |-> "accepted", request_id |-> request_id]

\* A request before server.orchestrate accepted it.
InitReq ==
  [pc |-> "idle", request_id |-> 0, ack |-> NoAck,
   task |-> NoTask, metadata |-> NoMetadata, offered |-> <<>>, verdict |-> NoVerdict, asked |-> 0,
   branch |-> NoneVal,
   generated |-> NoSub, subagent |-> NoSub, gate |-> "unchecked",
   loaded |-> NoneVal, subagents |-> <<>>, updated |-> FALSE,
   backend |-> NoBackend,
   result |-> NoResult, status |-> NoneVal, error |-> NoneVal,
   callbacks |-> <<>>, execs |-> <<>>, returned |-> NoResult]

\* Mutant: the exception leaves orchestrate.
Failed_Propagates(q, exc) == [q EXCEPT !.pc = "done", !.error = exc]

\* The except handler of orchestrate: the request takes the Failed path.
Failed(q, exc) == [q EXCEPT !.pc = "failReport", !.error = exc]

\* An await that never returns.
Hung(q) == [q EXCEPT !.pc = "hung"]

\* Mutant: the capability is run without waiting for the credential lookup.
AuthCheckEntry_SkipsLookup(q, sa) ==
  LET inferred == _infer_required_provider(
                     q.task.words \o sa.name \o sa.description)
      required == IF sa.required_provider # NoneVal
                  THEN sa.required_provider ELSE inferred
      sa2 == [sa EXCEPT !.required_provider = required]
  IN [q EXCEPT !.subagent = sa2, !.generated = NoSub, !.pc = "exec"]

\* Mutant: the credential lookup is made for every capability.
AuthCheckEntry_AlwaysLooksUp(q, sa) ==
  LET inferred == _infer_required_provider(
                     q.task.words \o sa.name \o sa.description)
      required == IF sa.required_provider # NoneVal
                  THEN sa.required_provider ELSE inferred
      sa2 == [sa EXCEPT !.required_provider = required]
  IN [q EXCEPT !.subagent = sa2, !.generated = NoSub, !.pc = "credLookup"]

\* _run_subagent_with_auth_check up to its first await: the provider is the
\* capability's, else the one inferred from task text, name and description.
AuthCheckEntry(q, sa) ==
  LET inferred == _infer_required_provider(
                     q.task.words \o sa.name \o sa.description)
      required == IF sa.required_provider # NoneVal
                  THEN sa.required_provider ELSE inferred
      sa2 == [sa EXCEPT !.required_provider = required]
  IN [q EXCEPT !.subagent = sa2,
               !.generated = NoSub,
               !.pc = IF required # NoneVal THEN "credLookup" ELSE "exec"]

\* Mutant: a matched request is sent through synthesis as well.
RouteMatch_Synthesizes(q, sa) ==
  [q EXCEPT !.branch = "match", !.offered = <<>>, !.pc = "synth"]

\* decide_route returned {"branch": "match"}: _execute_decision runs the
\* credential check on the matched capability.
RouteMatch(q, sa) ==
  AuthCheckEntry([q EXCEPT !.branch = "match", !.offered = <<>>], sa)

\* decide_route returned {"branch": "build_new"}: _execute_decision calls
\* _store_generated_subagent, which first awaits the Synthesizer's oracle.
RouteBuildNew(q) ==
  [q EXCEPT !.branch = "build_new", !.offered = <<>>, !.pc = "synth"]

\* The ids already issued to requests.
Issued == {req[r].request_id : r \in Reqs} \ {0}

\* server.orchestrate on task t: uuid4 issues an id, create_task schedules
\* PokestratorOrchestrator.orchestrate with it, and the acknowledgment is
\* returned; the scheduled task has not run yet (it starts with init_db).
Accepted(q, id, t) ==
  [q EXCEPT !.pc = "init", !.request_id = id, !.task = t,
            !.ack = Acknowledgment(id)]

Accept(r) ==
  /\ req[r].pc = "idle"
  /\ \E t \in Tasks : req' = [req EXCEPT ![r] = Accepted(@, uuid4(r), t)]
  /\ UNCHANGED <<registry, apiKeys, faultsOn, environ, naming, db>>

\* orchestrate, lines 143-151: init_db is awaited and its exception only
\* logged; then the capability list is requested.
InitDb(r) ==
  /\ req[r].pc = "init"
  /\ \E o \in RegistryOutcomes :
       req' = [req EXCEPT ![r] = IF o = "hang" THEN Hung(@)
                                 ELSE [@ EXCEPT !.pc = "load"]]
  /\ UNCHANGED <<registry, apiKeys, faultsOn, environ, naming, db>>

\* Mutant: the list misses the capability stored last, as a list cached
\* before that insert would.
get_all_subagents_Stale(reg) ==
  IF reg = <<>> THEN reg ELSE SubSeq(reg, 1, Len(reg) - 1)

\* db.get_all_subagents: every row, ORDER BY created_at ASC.
get_all_subagents(reg) == reg

\* _decide_route, lines 216-220: get_all_subagents returns, raises or never
\* answers; a failed load continues with the empty list.  loaded and
\* subagents are locals of _decide_route.
Load(r) ==
  /\ req[r].pc = "load"
  /\ \E o \in RegistryOutcomes :
       req' = [req EXCEPT ![r] =
                 IF o = "hang" THEN Hung(@)
                 ELSE [@ EXCEPT !.loaded = o,
                                !.subagents = IF o = "ok"
                                              THEN get_all_subagents(registry)
                                              ELSE <<>>,
                                !.pc = "decide"]]
  /\ UNCHANGED <<registry, apiKeys, faultsOn, environ, naming, db>>

\* Mutant: a failed load of the capability list is not absorbed and fails
\* the request.
_decide_route_LoadFailureRaises(q0) ==
  LET q == [q0 EXCEPT !.loaded = NoneVal, !.subagents = <<>>]
      ranked == rank_existing_subagents(q0.task.words, q0.subagents)
      class == GateClass(ranked)
  IN IF ~q.task.str \/ q0.loaded = "raise" THEN Failed(q, "route")
     ELSE IF class = "confident" THEN RouteMatch(q, ranked[1].subagent)
     ELSE IF class = "ambiguous" /\ route_llm_enabled
          THEN [q EXCEPT !.pc = "arbiter",
                         !.offered = Prefix(ranked, route_llm_top_k)]
     ELSE RouteBuildNew(q)

\* Mutant: with the Arbiter disabled, an ambiguous ranking is resolved to
\* its top candidate.
_decide_route_DisabledTakesTop(q0) ==
  LET q == [q0 EXCEPT !.loaded = NoneVal, !.subagents = <<>>]
      ranked == rank_existing_subagents(q0.task.words, q0.subagents)
      class == GateClass(ranked)
  IN IF ~q.task.str THEN Failed(q, "route")
     ELSE IF class = "confident" THEN RouteMatch(q, ranked[1].subagent)
     ELSE IF class = "ambiguous" /\ route_llm_enabled
          THEN [q EXCEPT !.pc = "arbiter",
                         !.offered = Prefix(ranked, route_llm_top_k)]
     ELSE IF class = "ambiguous" THEN RouteMatch(q, ranked[1].subagent)
     ELSE RouteBuildNew(q)

\* Mutant: the decision on an ambiguous ranking depends on which request
\* asks, as it would with state kept between calls.
_decide_route_ByCaller(q0) ==
  LET q == [q0 EXCEPT !.loaded = NoneVal, !.subagents = <<>>]
      ranked == rank_existing_subagents(q0.task.words, q0.subagents)
      class == GateClass(ranked)
  IN IF ~q.task.str THEN Failed(q, "route")
     ELSE IF class = "confident" THEN RouteMatch(q, ranked[1].subagent)
     ELSE IF class = "ambiguous" /\ q0.request_id > 1
          THEN RouteMatch(q, ranked[1].subagent)
     ELSE IF class = "ambiguous" /\ route_llm_enabled
          THEN [q EXCEPT !.pc = "arbiter",
                         !.offered = Prefix(ranked, route_llm_top_k)]
     ELSE RouteBuildNew(q)

\* SubagentRouter.decide_route up to the Arbiter call, and orchestrate's
\* handling of its exception: a decision that raises takes the Failed path
\* with "Could not determine route".
_decide_route(q0) ==
  LET q == [q0 EXCEPT !.loaded = NoneVal, !.subagents = <<>>]
      ranked == rank_existing_subagents(q0.task.words, q0.subagents)
      class == GateClass(ranked)
  IN IF ~q.task.str THEN Failed(q, "route")
     ELSE IF class = "confident" THEN RouteMatch(q, ranked[1].subagent)
     ELSE IF class = "ambiguous" /\ route_llm_enabled
          THEN [q EXCEPT !.pc = "arbiter",
                         !.offered = Prefix(ranked, route_llm_top_k)]
     ELSE RouteBuildNew(q)

\* The Routing step on the loaded list.
Route(r) ==
  /\ req[r].pc = "decide"
  /\ req' = [req EXCEPT ![r] = _decide_route(@)]
  /\ UNCHANGED <<registry, apiKeys, faultsOn, environ, naming, db>>

\* Mutant: every confidence counts as full confidence.
normalize_confidence_Saturates(c) == 100

\* SubagentRouter.normalize_confidence, in hundredths.
normalize_confidence(c) == IF c < 0 THEN 0 ELSE IF c > 100 THEN 100 ELSE c

\* by_name.get(selected_name.lower()): the candidates offered under that
\* lower-cased name; the dictionary keeps the last one.
ByName(offered, name) ==
  {i \in 1..Len(offered) : SameName(offered[i].subagent.name, name)}

Last(S) == CHOOSE i \in S : \A j \in S : j <= i

\* Mutant: a selection outside the candidates offered is looked up in the
\* whole registry.
llm_validate_ranked_match_TrustsRegistry(offered, v) ==
  IF v.kind # "json" THEN NoSub
  ELSE IF v.decision # "match" THEN NoSub
  ELSE IF normalize_confidence(v.confidence) < route_llm_min_confidence THEN NoSub
  ELSE IF ByName(offered, v.selected_name) # {}
       THEN offered[Last(ByName(offered, v.selected_name))].subagent
       ELSE get_subagent_by_name(registry, v.selected_name)

\* llm_validate_ranked_match after the oracle call: the capability selected,
\* or NoSub.
llm_validate_ranked_match(offered, v) ==
  IF v.kind # "json" THEN NoSub
  ELSE IF v.decision # "match" THEN NoSub
  ELSE IF normalize_confidence(v.confidence) < route_llm_min_confidence THEN NoSub
  ELSE IF ByName(offered, v.selected_name) # {}
       THEN offered[Last(ByName(offered, v.selected_name))].subagent
       ELSE NoSub

\* llm_validate_ranked_match up to the end of its oracle call: without the
\* SDK it returns before calling; asked counts the calls made.  verdict is
\* the function's local.
Answered(q, v) ==
  [q EXCEPT !.verdict = v,
            !.asked = IF v.kind = "sdk_none" THEN @ ELSE @ + 1,
            !.pc = "verdict"]

Arbiter(r) ==
  /\ req[r].pc = "arbiter"
  /\ \E v \in ArbiterOutcomes(req[r].offered) :
       req' = [req EXCEPT ![r] = Answered(@, v)]
  /\ UNCHANGED <<registry, apiKeys, faultsOn, environ, naming, db>>

\* llm_validate_ranked_match from parse_json_object on, and decide_route on
\* what it returns.
Verdict(r) ==
  /\ req[r].pc = "verdict"
  /\ LET q == [req[r] EXCEPT !.verdict = NoVerdict]
         llm_match == llm_validate_ranked_match(req[r].offered, req[r].verdict)
     IN req' = [req EXCEPT ![r] =
          IF llm_match # NoSub THEN RouteMatch(q, llm_match) ELSE RouteBuildNew(q)]
  /\ UNCHANGED <<registry, apiKeys, faultsOn, environ, naming, db>>

\* Mutant: the spec fields are not checked.
SpecUsable_Unchecked(description, system_prompt) == TRUE

\* _build_generated_subagent_spec, line 722: both normalized fields are
\* non-empty.
SpecUsable(description, system_prompt) ==
  description # <<>> /\ system_prompt # ""

\* _build_generated_subagent_spec and _store_generated_subagent up to the
\* next await: an unusable spec raises; a provider hint in the task is
\* attached and its instructions appended.
Synthesize(r) ==
  /\ req[r].pc = "synth"
  /\ \E a \in SynthOutcomes :
       LET q == req[r]
           name == _normalize_subagent_name(
                     a.name, _build_new_subagent_name(q.task.words))
           provider == _infer_required_provider(q.task.words)
           generated == Subagent(0, name, a.description,
                                 Prompt(a.system_prompt, provider),
                                 "ready", provider)
       IN req' = [req EXCEPT ![r] =
            IF a.kind = "raise" THEN Failed(q, "analysis_failed")
            ELSE IF a.kind = "not_json" THEN Failed(q, "analysis_not_json")
            ELSE IF ~SpecUsable(a.description, a.system_prompt)
                 THEN Failed(q, "analysis_incomplete")
            ELSE [q EXCEPT !.generated = generated,
                           !.pc = IF provider # NoneVal THEN "storeKey"
                                  ELSE "lookup"]]
  /\ UNCHANGED <<registry, apiKeys, faultsOn, environ, naming, db>>

\* _store_generated_subagent, line 412-413: the credential lookup that
\* decides the status at creation.  It is outside every try block.
StoreKey(r) ==
  /\ req[r].pc = "storeKey"
  /\ \E o \in RegistryOutcomes :
       LET q == req[r]
           provider_key == q.generated.required_provider \in apiKeys
       IN req' = [req EXCEPT ![r] =
            IF o = "hang" THEN Hung(q)
            ELSE IF o = "raise" THEN Failed(q, "registry")
            ELSE [q EXCEPT !.generated.status =
                              IF provider_key THEN "ready" ELSE "needs_api_key",
                           !.pc = "lookup"]]
  /\ UNCHANGED <<registry, apiKeys, faultsOn, environ, naming, db>>

\* _store_generated_subagent, lines 423-443: get_subagent_by_name.
Lookup(r) ==
  /\ req[r].pc = "lookup"
  /\ \E o \in RegistryOutcomes :
       LET q == req[r]
           existing == get_subagent_by_name(registry, q.generated.name)
       IN req' = [req EXCEPT ![r] =
            IF o = "hang" THEN Hung(q)
            ELSE IF o = "raise" THEN AuthCheckEntry(q, q.generated)
            ELSE IF existing # NoSub
                 THEN [q EXCEPT !.subagent = existing, !.pc = "reuse"]
            ELSE [q EXCEPT !.pc = "insSelect"]]
  /\ UNCHANGED <<registry, apiKeys, faultsOn, environ, naming, db>>

\* _store_generated_subagent, lines 426-440: the existing capability is
\* reused and its auth fields rewritten from this request's view.
Reuse(r) ==
  /\ req[r].pc = "reuse"
  /\ \E o \in RegistryOutcomes :
       LET q == req[r]
           existing == q.subagent
           provider == IF q.generated.required_provider # NoneVal
                       THEN q.generated.required_provider
                       ELSE existing.required_provider
           reg2 == update_subagent_auth(registry, existing.id,
                                        q.generated.status, provider)
           updated == RowById(reg2, existing.id)
       IN /\ registry' = IF o = "ok" THEN reg2 ELSE registry
          /\ req' = [req EXCEPT ![r] =
               IF o = "hang" THEN Hung(q)
               ELSE IF o = "raise" THEN AuthCheckEntry(q, q.generated)
               ELSE IF updated # NoSub THEN AuthCheckEntry(q, updated)
               ELSE AuthCheckEntry(q, existing)]
  /\ UNCHANGED <<apiKeys, faultsOn, environ, naming, db>>

\* insert_subagent, lines 274-286: the SELECT that looks for the name.
InsertSelect(r) ==
  /\ req[r].pc = "insSelect"
  /\ \E o \in RegistryOutcomes :
       LET q == req[r]
           existing == get_subagent_by_name(registry, q.generated.name)
       IN req' = [req EXCEPT ![r] =
            IF o = "hang" THEN Hung(q)
            ELSE IF o = "raise" THEN AuthCheckEntry(q, q.generated)
            ELSE IF existing # NoSub THEN AuthCheckEntry(q, existing)
            ELSE [q EXCEPT !.pc = "insInsert"]]
  /\ UNCHANGED <<registry, apiKeys, faultsOn, environ, naming, db>>

\* insert_subagent, lines 288-301, and its caller's except at 460: the
\* INSERT; when it raises (unique index, or the registry) the request goes
\* on with its own in-memory spec.
InsertRow(r) ==
  /\ req[r].pc = "insInsert"
  /\ \E o \in RegistryOutcomes :
       LET q == req[r]
           row == InsertedRow(registry, q.generated)
           stored == o = "ok" /\ ~UniqueViolation(registry, q.generated.name)
       IN /\ registry' = IF stored THEN Append(registry, row) ELSE registry
          /\ req' = [req EXCEPT ![r] =
               IF o = "hang" THEN Hung(q)
               ELSE IF stored THEN AuthCheckEntry(q, row)
               ELSE AuthCheckEntry(q, q.generated)]
  /\ UNCHANGED <<apiKeys, faultsOn, environ, naming, db>>


\* Mutant: the blocked branch misses its early return and goes on to run.
Blocked_FallsThrough(q) == [q EXCEPT !.gate = "blocked", !.pc = "exec"]

\* The blocked outcome of the Credential Gate: the attempt ends with the
\* missing-credential message and status, without execution.
Blocked(q) ==
  [q EXCEPT !.gate = "blocked",
            !.result = _build_missing_managed_api_key_message(
                         q.subagent.required_provider),
            !.status = "missing_managed_api_key",
            !.pc = "report"]

\* _run_subagent_with_auth_check, lines 275-293: get_api_key, outside every
\* try block, then _set_subagent_auth_status, which returns at once for a
\* capability without id.
CredentialLookup(r) ==
  /\ req[r].pc = "credLookup"
  /\ \E o \in RegistryOutcomes :
       LET q == req[r]
           api_key == q.subagent.required_provider \in apiKeys
       IN req' = [req EXCEPT ![r] =
            IF o = "hang" THEN Hung(q)
            ELSE IF o = "raise" THEN Failed(q, "registry")
            ELSE IF q.subagent.id = 0
                 THEN IF api_key THEN [q EXCEPT !.gate = "ready", !.pc = "progress"]
                      ELSE Blocked(q)
            ELSE [q EXCEPT !.gate = IF api_key THEN "ready" ELSE "blocked",
                           !.pc = "authWrite"]]
  /\ UNCHANGED <<registry, apiKeys, faultsOn, environ, naming, db>>

\* _set_subagent_auth_status, lines 675-689: the update of the persisted
\* auth fields; its exception is only logged.  updated is the function's
\* local: whether update_subagent_auth returned a row.
SetAuthStatus(r) ==
  /\ req[r].pc = "authWrite"
  /\ \E o \in RegistryOutcomes :
       LET q == req[r]
           status == IF q.gate = "blocked" THEN "needs_api_key" ELSE "ready"
           reg2 == update_subagent_auth(registry, q.subagent.id, status,
                                        q.subagent.required_provider)
           row == RowById(reg2, q.subagent.id)
       IN /\ registry' = IF o = "ok" THEN reg2 ELSE registry
          /\ req' = [req EXCEPT ![r] =
               IF o = "hang" THEN Hung(q)
               ELSE IF o = "ok" /\ row # NoSub
               THEN [q EXCEPT !.updated = TRUE,
                              !.subagent.status = row.status,
                              !.subagent.required_provider = row.required_provider,
                              !.pc = "authDone"]
               ELSE [q EXCEPT !.pc = "authDone"]]
  /\ UNCHANGED <<apiKeys, faultsOn, environ, naming, db>>

\* _run_subagent_with_auth_check after _set_subagent_auth_status returned:
\* the blocked attempt ends, the ready one sends the in-progress notification.
AfterAuthStatus(r) ==
  /\ req[r].pc = "authDone"
  /\ LET q == [req[r] EXCEPT !.updated = FALSE]
     IN req' = [req EXCEPT ![r] =
          IF q.gate = "blocked" THEN Blocked(q) ELSE [q EXCEPT !.pc = "progress"]]
  /\ UNCHANGED <<registry, apiKeys, faultsOn, environ, naming, db>>

\* Mutant: a failed send of the in-progress notification is not caught and
\* reaches the except handler of orchestrate.
SendProgress_FailureRaises(r) ==
  /\ req[r].pc = "progress"
  /\ \E d \in DeliveryOutcomes :
       LET q == req[r]
           cb == Callback(q.request_id, "progress", "in_progress", q.task,
                          NoResult, q.branch, q.subagent.required_provider,
                          NoDict, d = "ok")
           q2 == [q EXCEPT !.callbacks = Append(@, cb)]
       IN req' = [req EXCEPT ![r] =
            IF d = "ok" THEN [q2 EXCEPT !.pc = "exec"] ELSE Failed(q2, "delivery")]
  /\ UNCHANGED <<registry, apiKeys, faultsOn, environ, naming, db>>

\* _send_progress_callback: the in-progress notification; a failed send is
\* only logged.
SendProgress(r) ==
  /\ req[r].pc = "progress"
  /\ \E d \in DeliveryOutcomes :
       LET q == req[r]
           cb == Callback(q.request_id, "progress", "in_progress", q.task,
                          NoResult, q.branch, q.subagent.required_provider,
                          NoDict, d = "ok")
       IN req' = [req EXCEPT ![r] =
            [q EXCEPT !.callbacks = Append(@, cb), !.pc = "exec"]]
  /\ UNCHANGED <<registry, apiKeys, faultsOn, environ, naming, db>>

\* What _run_subagent and _run_claude_agent return for an outcome of the
\* backend that they turn into a value.
RunResult(q, b) ==
  IF b.kind = "sdk_none"
  THEN _simulate_subagent_response(q.subagent.name, q.task.words, "sdk_unavailable")
  ELSE IF b.kind = "init_raises"
  THEN _simulate_subagent_response(q.subagent.name, q.task.words, "query_init_failed")
  ELSE IF b.kind = "timeout"
  THEN _simulate_subagent_response(q.subagent.name, q.task.words, "timed_out")
  ELSE consume(b.events, q.subagent.name, q.task.words)

\* The outcomes of the backend that _run_claude_agent lets propagate: an
\* exception of the awaited stream handle (line 506) or of the iteration
\* (line 513); wait_for is wrapped for TimeoutError only.
RunRaises(b) == b.kind \in {"await_raises", "iter_raises"}

\* _run_subagent: the Executing step.  The credential is injected into the
\* instructions when the gate found one.
ExecuteOn(r, outcomes) ==
  /\ req[r].pc = "exec"
  /\ \E b \in outcomes :
       LET q == req[r]
           call == [id |-> q.subagent.id, name |-> q.subagent.name,
                    system_prompt |-> q.subagent.system_prompt,
                    api_key |-> q.gate = "ready"]
           q1 == [q EXCEPT !.backend = b]
           q2 == IF b.kind = "sdk_none" THEN q1
                 ELSE [q1 EXCEPT !.execs = Append(@, call)]
       IN req' = [req EXCEPT ![r] =
            IF RunRaises(b) THEN Failed(q2, "backend")
            ELSE [q2 EXCEPT !.result = RunResult(q, b),
                            !.status = "completed",
                            !.pc = "report"]]
  /\ UNCHANGED <<registry, apiKeys, faultsOn, environ, naming, db>>

Execute(r) == ExecuteOn(r, BackendOutcomes)

\* What orchestrate does when the send of the callback built from the
\* computed result raises: the send sits inside the try block, so its
\* exception reaches the except handler like any other.
AfterDeliveryFailure(q) == Failed(q, "delivery")

\* orchestrate, lines 162-190: the Reporting step of a computed result.
Report(r) ==
  /\ req[r].pc = "report"
  /\ \E d \in DeliveryOutcomes :
       LET q == req[r]
           metadata_dict == _parse_metadata(q.metadata)
           cb == Callback(q.request_id, "terminal", q.status, q.task, q.result,
                          q.branch, q.subagent.required_provider,
                          IF metadata_dict.items # {} THEN metadata_dict ELSE NoDict,
                          d = "ok")
           q2 == [q EXCEPT !.callbacks = Append(@, cb)]
       IN req' = [req EXCEPT ![r] =
            IF d = "ok" THEN [q2 EXCEPT !.returned = q.result, !.pc = "done"]
            ELSE AfterDeliveryFailure(q2)]
  /\ UNCHANGED <<registry, apiKeys, faultsOn, environ, naming, db>>

\* The error string orchestrate returns from its except handler.
ErrorResult(exc) == [kind |-> "error", exc |-> exc]

\* orchestrate, lines 191-213: the failure callback; a failed send is only
\* logged, and the error string is returned.
ReportFailure(r) ==
  /\ req[r].pc = "failReport"
  /\ \E d \in DeliveryOutcomes :
       LET q == req[r]
           cb == Callback(q.request_id, "terminal", "failed", q.task,
                          ErrorResult(q.error), NoneVal, NoneVal, NoDict, d = "ok")
       IN req' = [req EXCEPT ![r] =
            [q EXCEPT !.callbacks = Append(@, cb),
                      !.returned = ErrorResult(q.error),
                      !.pc = "done"]]
  /\ UNCHANGED <<registry, apiKeys, faultsOn, environ, naming, db>>

\* ------------------------------------------------------- capability names
\* The name normalisation at the level of characters: a text is the
\* sequence of its characters, each a string of length one.
SlugChars ==
  {"a", "b", "c", "d", "e", "f", "g", "h", "i", "j", "k", "l", "m", "n", "o", "p", "q", "r", "s", "t", "u", "v", "w", "x", "y", "z",
   "0", "1", "2", "3", "4", "5", "6", "7", "8", "9"}

\* slug[:56] in _build_new_subagent_name and slug[:64] in
\* _normalize_subagent_name.
HintLimit == 56
NameLimit == 64

AutoPrefix == <<"a", "u", "t", "o", "_">>

GeneralTaskAutomation ==
  <<"g", "e", "n", "e", "r", "a", "l", "_", "t",
    "a", "s", "k", "_", "a", "u", "t", "o", "m", "a", "t", "i", "o", "n">>

\* str.lower() on the characters of the model's alphabet.
LowerChar(c) == CASE c = "A" -> "a" [] c = "Z" -> "z" [] OTHER -> c

LowerChars(s) == [i \in 1..Len(s) |-> LowerChar(s[i])]

Whitespace == {" "}

\* str.strip(chars): the text without its leading and trailing characters
\* of the set.
StripChars(s, drop) ==
  LET keep == {i \in 1..Len(s) : s[i] \notin drop}
  IN IF keep = {} THEN <<>>
     ELSE SubSeq(s, CHOOSE i \in keep : \A j \in keep : i <= j,
                    CHOOSE i \in keep : \A j \in keep : j <= i)

\* re.sub(r"[^a-z0-9]+", "_", s): every maximal run of other characters
\* becomes one underscore.  The first character of a run is replaced and
\* the rest of the run is dropped.
Dropped == ""

IsKept(c) == c # Dropped

SubRuns(s) ==
  SelectSeq([i \in 1..Len(s) |->
               IF s[i] \in SlugChars THEN s[i]
               ELSE IF i > 1 /\ s[i - 1] \notin SlugChars THEN Dropped
               ELSE "_"],
            IsKept)

\* re.sub(r"[^a-z0-9]+", "_", s).strip("_")
Slug(s) == StripChars(SubRuns(s), {"_"})

StartsWith(s, prefix) ==
  Len(s) >= Len(prefix) /\ SubSeq(s, 1, Len(prefix)) = prefix

\* PokestratorOrchestrator._build_new_subagent_name on characters.
_build_new_subagent_name_chars(task_description) ==
  LET slug == Slug(LowerChars(task_description))
      slug2 == IF slug = <<>> THEN GeneralTaskAutomation ELSE slug
      slug3 == IF Len(slug2) > HintLimit
               THEN StripChars(Prefix(slug2, HintLimit), {"_"}) ELSE slug2
  IN AutoPrefix \o slug3

\* Mutant: the name is returned without the cut at 64 characters.
_normalize_subagent_name_chars_Uncut(value, fallback) ==
  LET raw == LowerChars(StripChars(value, Whitespace))
      slug == Slug(raw)
      slug2 == IF slug = <<>> THEN Slug(LowerChars(fallback)) ELSE slug
      slug3 == IF slug2 = <<>> THEN AutoPrefix \o GeneralTaskAutomation ELSE slug2
      slug4 == IF StartsWith(slug3, AutoPrefix) THEN slug3 ELSE AutoPrefix \o slug3
  IN StripChars(slug4, {"_"})

\* PokestratorOrchestrator._normalize_subagent_name on characters; the empty
\* text stands for every falsy value of the oracle's name field.
_normalize_subagent_name_chars(value, fallback) ==
  LET raw == LowerChars(StripChars(value, Whitespace))
      slug == Slug(raw)
      slug2 == IF slug = <<>> THEN Slug(LowerChars(fallback)) ELSE slug
      slug3 == IF slug2 = <<>> THEN AutoPrefix \o GeneralTaskAutomation ELSE slug2
      slug4 == IF StartsWith(slug3, AutoPrefix) THEN slug3 ELSE AutoPrefix \o slug3
  IN StripChars(Prefix(slug4, NameLimit), {"_"})

\* The texts tried: up to MaxParts parts, among them a run of letters that
\* brings a name to the cut.
MaxParts == 3

LongRun == [i \in 1..(NameLimit - 6) |-> "a"]

NameParts ==
  {<<"A", "u", "t", "o", "_">>, <<"x">>, <<"-", " ">>, <<"Z", "9">>, <<" ">>, LongRun}

RECURSIVE Flatten(_)
Flatten(parts) ==
  IF parts = <<>> THEN <<>> ELSE Head(parts) \o Flatten(Tail(parts))

NameTexts ==
  {Flatten(parts) : parts \in UNION {[1..n -> NameParts] : n \in 0..MaxParts}}

NoNaming == [pc |-> "off", text |-> <<>>, name_hint |-> <<>>, name |-> <<>>]

\* decide_route builds the name hint from the task text.
BuildHint ==
  /\ naming.pc = "route"
  /\ naming' = [naming EXCEPT !.pc = "analyze", !.text = <<>>,
                              !.name_hint = _build_new_subagent_name_chars(naming.text)]
  /\ UNCHANGED <<registry, apiKeys, faultsOn, environ, req, db>>

\* _store_generated_subagent called with a name hint of the caller's own.
PassHint ==
  /\ naming.pc = "route"
  /\ naming' = [naming EXCEPT !.pc = "analyze", !.text = <<>>,
                              !.name_hint = naming.text]
  /\ UNCHANGED <<registry, apiKeys, faultsOn, environ, req, db>>

\* _build_generated_subagent_spec, lines 707-710: the oracle's name is
\* normalised with the hint, or the default name, as fallback.
NormalizeName ==
  /\ naming.pc = "analyze"
  /\ \E value \in NameTexts :
       naming' = [naming EXCEPT
                    !.pc = "named",
                    !.name = _normalize_subagent_name_chars(
                               value,
                               IF naming.name_hint # <<>> THEN naming.name_hint
                               ELSE AutoPrefix \o GeneralTaskAutomation)]
  /\ UNCHANGED <<registry, apiKeys, faultsOn, environ, req, db>>

\* ------------------------------------------------------ connection pool
\* db.init_db and db.get_pool, for callers that each make up to MaxCalls
\* calls; close_db is not called.  POOL is 0 for None, else the number of
\* the pool object; created counts the pools that create_pool returned.
MaxCalls == 2

DbCallers == 1..NumReqs

NoPool == 0

NoHolder == 0

DbStart ==
  [POOL |-> NoPool, INITIALIZED |-> FALSE, INIT_LOCK |-> NoHolder, created |-> 0,
   at |-> [c \in DbCallers |-> "idle"], calls |-> [c \in DbCallers |-> 0]]

\* if _INITIALIZED and _POOL is not None: return
AlreadyInitialized == db.INITIALIZED /\ db.POOL # NoPool

\* asyncio.Lock.acquire returns at once when the lock is free and nobody
\* waits for it.
LockFree == db.INIT_LOCK = NoHolder /\ \A c \in DbCallers : db.at[c] # "lock"

\* init_db from its first line to its first suspension: the check, then
\* the lock, the second check, and the call of asyncpg.create_pool.
EnterInitDb(c) ==
  IF AlreadyInitialized THEN [db EXCEPT !.calls[c] = @ + 1]
  ELSE IF LockFree
       THEN [db EXCEPT !.calls[c] = @ + 1, !.INIT_LOCK = c, !.at[c] = "create"]
  ELSE [db EXCEPT !.calls[c] = @ + 1, !.at[c] = "lock"]

init_db(c) ==
  /\ db.at[c] = "idle"
  /\ db.calls[c] < MaxCalls
  /\ db' = EnterInitDb(c)
  /\ UNCHANGED <<registry, apiKeys, faultsOn, environ, req, naming>>

\* get_pool: init_db is awaited only when there is no pool.
get_pool(c) ==
  /\ db.at[c] = "idle"
  /\ db.calls[c] < MaxCalls
  /\ db' = IF db.POOL = NoPool THEN EnterInitDb(c)
           ELSE [db EXCEPT !.calls[c] = @ + 1]
  /\ UNCHANGED <<registry, apiKeys, faultsOn, environ, req, naming>>

\* A caller that waited for _INIT_LOCK gets it and checks again.
AcquireInitLock(c) ==
  /\ db.at[c] = "lock"
  /\ db.INIT_LOCK = NoHolder
  /\ db' = IF AlreadyInitialized THEN [db EXCEPT !.at[c] = "idle"]
           ELSE [db EXCEPT !.INIT_LOCK = c, !.at[c] = "create"]
  /\ UNCHANGED <<registry, apiKeys, faultsOn, environ, req, naming>>

\* _POOL = await asyncpg.create_pool(...): the pool is assigned before the
\* schema statements; an exception leaves init_db and releases the lock.
CreatePool(c) ==
  /\ db.at[c] = "create"
  /\ \E o \in {"ok", "raise"} :
       db' = IF o = "ok"
             THEN [db EXCEPT !.POOL = db.created + 1, !.created = @ + 1,
                             !.at[c] = "schema"]
             ELSE [db EXCEPT !.INIT_LOCK = NoHolder, !.at[c] = "idle"]
  /\ UNCHANGED <<registry, apiKeys, faultsOn, environ, req, naming>>

\* The schema statements on a connection of the pool: _INITIALIZED is set
\* after the last of them; an exception leaves _POOL as it is.
SchemaSetup(c) ==
  /\ db.at[c] = "schema"
  /\ \E o \in {"ok", "raise"} :
       db' = IF o = "ok"
             THEN [db EXCEPT !.INITIALIZED = TRUE, !.INIT_LOCK = NoHolder,
                             !.at[c] = "idle"]
             ELSE [db EXCEPT !.INIT_LOCK = NoHolder, !.at[c] = "idle"]
  /\ UNCHANGED <<registry, apiKeys, faultsOn, environ, req, naming>>

\* ---------------------------------------------------------- specification
\* The process starts on an empty registry with the default configuration.
Init ==
  /\ registry = <<>>
  /\ apiKeys \in {{}, {"stripe"}}
  /\ faultsOn \in BOOLEAN
  /\ environ = [POKESTRATOR_ROUTE_LLM_ENABLED |-> "1"]
  /\ req = [r \in Reqs |-> InitReq]
  /\ naming = NoNaming
  /\ db = DbStart

Step(r) ==
  \/ Accept(r)
  \/ InitDb(r)
  \/ Load(r)
  \/ Route(r)
  \/ Arbiter(r)
  \/ Verdict(r)
  \/ Synthesize(r)
  \/ StoreKey(r)
  \/ Lookup(r)
  \/ Reuse(r)
  \/ InsertSelect(r)
  \/ InsertRow(r)
  \/ CredentialLookup(r)
  \/ SetAuthStatus(r)
  \/ AfterAuthStatus(r)
  \/ SendProgress(r)
  \/ Execute(r)
  \/ Report(r)
  \/ ReportFailure(r)

Next == \E r \in Reqs : Step(r)

Spec == Init /\ [][Next]_vars

\* Every accepted request's task is scheduled by the event loop until it
\* returns: a step that can be taken is eventually taken.
FairSpec == Spec /\ \A r \in Reqs : WF_vars(Step(r))

\* ------------------------------------------------- routing specification
\* The Routing step on its own: a request is decided against every registry
\* of at most MaxRows distinct capabilities, and stops once decide_route has
\* returned.  decide_route reads the capability list and the task only, so
\* one request is run.
MaxRows == 4

RouteReqs == {1}

\* Name and description of the capabilities the registries are built from.
RoutePool ==
  {[name |-> <<"auto", "stripe", "usage">>, description |-> <<"usage", "report">>],
   [name |-> <<"auto", "disk", "usage">>, description |-> <<"usage", "report">>],
   [name |-> <<"auto", "payments">>, description |-> <<"the", "usage", "report">>],
   [name |-> <<"auto", "usage">>, description |-> <<"stripe", "disk">>],
   [name |-> <<"auto", "disk", "report">>, description |-> <<"disk", "report">>],
   [name |-> <<"auto", "stripe", "disk", "usage">>, description |-> <<"report">>],
   [name |-> <<"auto", "stripe", "disk">>,
    description |-> <<"stripe", "disk", "usage">>]}

Injective(f) == \A i, j \in DOMAIN f : i # j => f[i] # f[j]

\* The rows of a registry in the order get_all_subagents returns them.
ToRows(f) ==
  [i \in DOMAIN f |->
     Subagent(i, f[i].name, f[i].description, Prompt("p1", NoneVal), "ready", NoneVal)]

RouteRegistries ==
  UNION {{ToRows(f) : f \in {g \in [1..n -> RoutePool] : Injective(g)}} :
           n \in 0..MaxRows}

\* Tasks of the main specification, a task of three tokens, and texts
\* without any token: the empty text, stop words only, a stop word and a
\* two-letter word.
RouteTasks ==
  Tasks \cup {Task(<<"Stripe", "disk", "usage">>),
              Task(<<>>), Task(<<"the", "my">>), Task(<<"to", "db">>)}

RouteAccept(r) ==
  /\ req[r].pc = "idle"
  /\ \E t \in RouteTasks : req' = [req EXCEPT ![r] = Accepted(@, uuid4(r), t)]
  /\ UNCHANGED <<registry, apiKeys, faultsOn, environ, naming, db>>

RouteInit ==
  /\ registry \in RouteRegistries
  /\ apiKeys = {}
  /\ faultsOn = FALSE
  /\ environ \in [POKESTRATOR_ROUTE_LLM_ENABLED : {"1", "0"}]
  /\ req = [r \in Reqs |-> InitReq]
  /\ naming = NoNaming
  /\ db = DbStart

RouteStep(r) ==
  \/ RouteAccept(r)
  \/ InitDb(r)
  \/ Load(r)
  \/ Route(r)
  \/ Arbiter(r)
  \/ Verdict(r)

RouteNext == \E r \in RouteReqs : RouteStep(r)

RouteSpec == RouteInit /\ [][RouteNext]_vars

\* -------------------------------------------- single-request specification
\* One request on its own, from a registry that already holds capabilities,
\* with every metadata text and every event stream of up to MaxEvents
\* events.
MaxEvents == 2

SoloReqs == {1}

\* An event carries partial text, a declared result, both or neither.
SoloEvents ==
  {Event("", ""), Event("a", ""), Event("b", ""), Event("", "r"), Event("", "s"),
   Event("a", "r")}

SoloStreams == UNION {[1..n -> SoloEvents] : n \in 0..MaxEvents}

\* Capabilities stored by earlier requests: one without provider, one that
\* needs the stripe credential, and one under the name the Synthesizer's
\* oracle proposes.
SoloDisk(id) ==
  Subagent(id, <<"auto", "disk", "usage">>, <<"usage", "report">>,
           Prompt("p1", NoneVal), "ready", NoneVal)

SoloStripe(id) ==
  Subagent(id, <<"auto", "stripe", "usage">>, <<"usage", "report">>,
           Prompt("p1", "stripe"), "needs_api_key", "stripe")

SoloPayments(id) ==
  Subagent(id, <<"auto", "payments">>, <<"disk", "report">>,
           Prompt("p1", NoneVal), "ready", NoneVal)

SoloRegistries ==
  {<<>>, <<SoloDisk(1)>>, <<SoloStripe(1)>>, <<SoloPayments(1)>>,
   <<SoloDisk(1), SoloStripe(2)>>}

SoloAccept(r) ==
  /\ req[r].pc = "idle"
  /\ \E t \in Tasks, m \in Metadatas :
       req' = [req EXCEPT ![r] = [Accepted(@, uuid4(r), t) EXCEPT !.metadata = m]]
  /\ UNCHANGED <<registry, apiKeys, faultsOn, environ, naming, db>>

SoloExecute(r) == ExecuteOn(r, BackendOutcomesOn(SoloStreams))

SoloInit ==
  /\ registry \in SoloRegistries
  /\ apiKeys \in {{}, {"stripe"}}
  /\ faultsOn \in BOOLEAN
  /\ environ = [POKESTRATOR_ROUTE_LLM_ENABLED |-> "1"]
  /\ req = [r \in Reqs |-> InitReq]
  /\ naming = NoNaming
  /\ db = DbStart

SoloStep(r) ==
  \/ SoloAccept(r)
  \/ InitDb(r)
  \/ Load(r)
  \/ Route(r)
  \/ Arbiter(r)
  \/ Verdict(r)
  \/ Synthesize(r)
  \/ StoreKey(r)
  \/ Lookup(r)
  \/ Reuse(r)
  \/ InsertSelect(r)
  \/ InsertRow(r)
  \/ CredentialLookup(r)
  \/ SetAuthStatus(r)
  \/ AfterAuthStatus(r)
  \/ SendProgress(r)
  \/ SoloExecute(r)
  \/ Report(r)
  \/ ReportFailure(r)

SoloNext == \E r \in SoloReqs : SoloStep(r)

SoloSpec == SoloInit /\ [][SoloNext]_vars

\* --------------------------------------------------- twin specification
\* The Routing step run twice on the same inputs: two requests carry the
\* same task text, read the same capability list under the same
\* configuration, and the Arbiter gives both the same answer.  Their ids
\* and metadata differ.
TwinRows == 2

TwinRegistries ==
  UNION {{ToRows(f) : f \in {g \in [1..n -> RoutePool] : Injective(g)}} :
           n \in 0..TwinRows}

TwinAccept ==
  /\ \A r \in Reqs : req[r].pc = "idle"
  /\ \E t \in RouteTasks :
       req' = [r \in Reqs |->
                 [Accepted(req[r], uuid4(r), t) EXCEPT
                    !.metadata = IF r = 1 THEN NoMetadata ELSE "{}"]]
  /\ UNCHANGED <<registry, apiKeys, faultsOn, environ, naming, db>>

TwinArbiter ==
  /\ \A r \in Reqs : req[r].pc = "arbiter"
  /\ \E v \in UNION {ArbiterOutcomes(req[r].offered) : r \in Reqs} :
       req' = [r \in Reqs |-> Answered(req[r], v)]
  /\ UNCHANGED <<registry, apiKeys, faultsOn, environ, naming, db>>

TwinInit ==
  /\ registry \in TwinRegistries
  /\ apiKeys = {}
  /\ faultsOn = FALSE
  /\ environ \in [POKESTRATOR_ROUTE_LLM_ENABLED : {"1", "0"}]
  /\ req = [r \in Reqs |-> InitReq]
  /\ naming = NoNaming
  /\ db = DbStart

TwinStep(r) ==
  \/ InitDb(r)
  \/ Load(r)
  \/ Route(r)
  \/ Verdict(r)

TwinNext ==
  \/ TwinAccept
  \/ TwinArbiter
  \/ \E r \in Reqs : TwinStep(r)

TwinSpec == TwinInit /\ [][TwinNext]_vars

\* ------------------------------------------------ two-request specification
\* Two concurrent requests on a registry that already holds the capability
\* the Synthesizer's oracle names, stored by an earlier request without a
\* provider; the registry and the callback endpoint do not fail.
PairRegistries == {<<SoloPayments(1)>>}

PairInit ==
  /\ registry \in PairRegistries
  /\ apiKeys \in {{}, {"stripe"}}
  /\ faultsOn = FALSE
  /\ environ = [POKESTRATOR_ROUTE_LLM_ENABLED |-> "1"]
  /\ req = [r \in Reqs |-> InitReq]
  /\ naming = NoNaming
  /\ db = DbStart

PairSpec == PairInit /\ [][Next]_vars

\* --------------------------------------------------- name specification
\* The name normalisation on its own, for every task text, name hint and
\* oracle name of NameTexts.
NameInit ==
  /\ registry = <<>>
  /\ apiKeys = {}
  /\ faultsOn = FALSE
  /\ environ = [POKESTRATOR_ROUTE_LLM_ENABLED |-> "1"]
  /\ req = [r \in Reqs |-> InitReq]
  /\ naming \in [pc : {"route"}, text : NameTexts, name_hint : {<<>>}, name : {<<>>}]
  /\ db = DbStart

NameNext ==
  \/ BuildHint
  \/ PassHint
  \/ NormalizeName

NameSpec == NameInit /\ [][NameNext]_vars

\* --------------------------------------------------- pool specification
\* Concurrent callers of init_db and get_pool.
DbInit ==
  /\ registry = <<>>
  /\ apiKeys = {}
  /\ faultsOn = FALSE
  /\ environ = [POKESTRATOR_ROUTE_LLM_ENABLED |-> "1"]
  /\ req = [r \in Reqs |-> InitReq]
  /\ naming = NoNaming
  /\ db = DbStart

DbStep(c) ==
  \/ init_db(c)
  \/ get_pool(c)
  \/ AcquireInitLock(c)
  \/ CreatePool(c)
  \/ SchemaSetup(c)

DbNext == \E c \in DbCallers : DbStep(c)

DbSpec == DbInit /\ [][DbNext]_vars

\* ------------------------------------------------------------------ claims
IsTerminal(c) == c.kind = "terminal"

\* The terminal callbacks handed to the notification channel for a request,
\* in the order of the sends.
Terminals(q) == SelectSeq(q.callbacks, IsTerminal)

Done(r) == req[r].pc = "done"

\* C1: every request that orchestrate has returned from had exactly one
\* terminal callback handed to the notification channel: never none and
\* never a second one.
C1_ExactlyOneTerminalCallback ==
  \A r \in Reqs : Done(r) => Len(Terminals(req[r])) = 1

\* C2: when the send of the callback built from a computed result fails,
\* the failure is only logged: no further send is made, and orchestrate
\* returns the result computed before delivery.
C2_DeliveryFailureOnlyLogged ==
  \A r \in Reqs :
    LET q == req[r]
        t == Terminals(q)
    IN (Done(r) /\ q.status # NoneVal /\ t # <<>> /\ ~t[1].delivered)
       => (Len(t) = 1 /\ q.returned = q.result)

RoutingOrSynthesisErrors ==
  {"route", "analysis_failed", "analysis_not_json", "analysis_incomplete"}

\* C3: a callback with status failed is sent only when the routing decision
\* raised or synthesis produced no usable spec; never for a failure of the
\* credential lookup, of the auth-status write, of the execution backend or
\* of the notification delivery.
C3_FailedOnlyFromRoutingOrSynthesis ==
  \A r \in Reqs :
    (\E i \in 1..Len(req[r].callbacks) : req[r].callbacks[i].status = "failed")
    => req[r].error \in RoutingOrSynthesisErrors

\* The step in which the Credential Gate of request r ends its lookup or its
\* auth-status write.
GateStep(r) ==
  /\ req[r].pc \in {"credLookup", "authWrite"}
  /\ req'[r].pc \in {"authDone", "report"}

\* What a blocked request reports, in every state: the missing-credential
\* message and status, the provider in the metadata of its callback, and no
\* call of the execution backend.
BlockedReport(q) ==
  q.gate = "blocked" =>
    /\ q.subagent.required_provider # NoneVal
    /\ q.subagent.required_provider \notin apiKeys
    /\ q.execs = <<>>
    /\ q.backend = NoBackend
    /\ q.pc \in {"report", "failReport", "done"} =>
         /\ q.status = "missing_managed_api_key"
         /\ q.result =
              _build_missing_managed_api_key_message(q.subagent.required_provider)
    /\ Terminals(q) # <<>> =>
         /\ Terminals(q)[1].status = "missing_managed_api_key"
         /\ Terminals(q)[1].provider = q.subagent.required_provider
         /\ Terminals(q)[1].body = q.result

\* C4 as stated: whenever the gate finds no credential for the provider of
\* a capability, the capability is persisted with status needs_api_key when
\* the gate ends.
C4_StatusAlwaysPersisted ==
  [][\A r \in Reqs :
       (GateStep(r) /\ req'[r].gate = "blocked")
       => RowById(registry', req'[r].subagent.id).status = "needs_api_key"]_vars

\* C4, amended: a lookup that finds no credential blocks the request; the
\* status needs_api_key is persisted when the capability is a persisted row
\* and the update returned it (a capability without id is not written, a
\* failed update is only logged); the blocked request reports the
\* missing-credential status, message and provider, and never executes.
C4_MissingCredentialBlocks ==
  [][\A r \in Reqs :
       /\ (GateStep(r) /\ req[r].pc = "credLookup")
          => (req'[r].gate = "blocked"
              <=> req[r].subagent.required_provider \notin apiKeys)
       /\ (GateStep(r) /\ req'[r].gate = "blocked" /\ req'[r].updated)
          => /\ req'[r].subagent.id # 0
             /\ RowById(registry', req'[r].subagent.id).status = "needs_api_key"
             /\ RowById(registry', req'[r].subagent.id).required_provider
                  = req'[r].subagent.required_provider
       /\ BlockedReport(req'[r])]_vars

\* A blocked request has finished: its status was persisted and its callback
\* delivered.
C4_Witness ==
  \E r \in Reqs :
    /\ Done(r)
    /\ req[r].gate = "blocked"
    /\ req[r].subagent.id # 0
    /\ RowById(registry, req[r].subagent.id).status = "needs_api_key"
    /\ Terminals(req[r])[1].delivered

DegradedReason(b) ==
  CASE b.kind = "sdk_none" -> "sdk_unavailable"
    [] b.kind = "init_raises" -> "query_init_failed"
    [] b.kind = "timeout" -> "timed_out"
    [] OTHER -> "no_output"

\* The backend was unavailable, timed out, or completed a stream in which no
\* event carried text or a declared result.
Degraded(b) ==
  \/ b.kind \in {"sdk_none", "init_raises", "timeout"}
  \/ /\ b.kind = "stream"
     /\ \A i \in 1..Len(b.events) :
          b.events[i].text = "" /\ b.events[i].result = ""

\* C5: when the backend is unavailable, times out or completes without
\* output, the result is the fallback built from the capability name, the
\* reason and the task text, and the request reports status completed.
C5_DegradedExecutionCompletes ==
  \A r \in Reqs :
    LET q == req[r]
    IN Degraded(q.backend) =>
         /\ q.result = [kind |-> "fallback", name |-> q.subagent.name,
                        reason |-> DegradedReason(q.backend),
                        task |-> q.task.words]
         /\ q.status = "completed"
         /\ Terminals(q) # <<>> =>
              /\ Terminals(q)[1].status = "completed"
              /\ Terminals(q)[1].body = q.result

\* A stream that ended without output was reported as completed.
C5_Witness ==
  \E r \in Reqs :
    /\ Done(r)
    /\ req[r].backend = [kind |-> "stream", events |-> <<>>]
    /\ Terminals(req[r])[1].delivered
    /\ Terminals(req[r])[1].body.kind = "fallback"

\* C6: every outcome of the execution backend becomes a returned value: a
\* request that entered _run_subagent has a result to report and did not
\* take the Failed path because of the backend.
C6_ExecutionNeverRaises ==
  \A r \in Reqs :
    req[r].backend # NoBackend
    => (req[r].result # NoResult /\ req[r].error # "backend")

RowsNamed(name) == {i \in 1..Len(registry) : SameName(registry[i].name, name)}

\* Both requests were routed to build_new, synthesized a capability and have
\* finished, and the two capabilities have the same name.
SameNameBuilds(r1, r2) ==
  /\ r1 # r2
  /\ Done(r1) /\ Done(r2)
  /\ req[r1].branch = "build_new" /\ req[r2].branch = "build_new"
  /\ req[r1].subagent # NoSub /\ req[r2].subagent # NoSub
  /\ SameName(req[r1].subagent.name, req[r2].subagent.name)

\* C7: with a registry and a channel that answer, two build-new requests
\* that synthesized the same name leave exactly one persisted capability of
\* that name, and neither ends with status failed.
C7_SameNameBuildsOneRow ==
  \A r1, r2 \in Reqs :
    (~faultsOn /\ SameNameBuilds(r1, r2)) =>
      /\ Cardinality(RowsNamed(req[r1].subagent.name)) = 1
      /\ \A r \in {r1, r2} :
           /\ req[r].error = NoneVal
           /\ Len(Terminals(req[r])) = 1
           /\ Terminals(req[r])[1].status
                \in {"completed", "missing_managed_api_key"}

\* Two build-new requests raced on one name: one of them lost the INSERT.
C7_Witness ==
  \E r1, r2 \in Reqs :
    /\ ~faultsOn
    /\ SameNameBuilds(r1, r2)
    /\ req[r1].subagent.id # 0
    /\ req[r2].subagent.id = 0

\* C8: with a registry that answers, a build-new request never calls the
\* execution backend with a capability whose id or instructions differ from
\* the persisted row of that name.
C8_CollisionUsesPersistedRow ==
  \A r \in Reqs :
    (~faultsOn /\ req[r].branch = "build_new") =>
      \A i \in 1..Len(req[r].execs) :
        LET call == req[r].execs[i]
            row == get_subagent_by_name(registry, call.name)
        IN row # NoSub =>
             (call.id = row.id /\ call.system_prompt = row.system_prompt)

\* The step in which decide_route runs for request r.
DecideStep(r) == req[r].pc = "decide" /\ req'[r].pc # "decide"

RouteFailure(q) ==
  q.error = "route" =>
    /\ q.branch = NoneVal
    /\ q.subagent = NoSub /\ q.generated = NoSub
    /\ q.execs = <<>> /\ q.backend = NoBackend
    /\ q.pc \in {"failReport", "done"}
    /\ q.pc = "done" =>
         /\ Len(Terminals(q)) = 1
         /\ q.callbacks = Terminals(q)
         /\ Terminals(q)[1].status = "failed"
         /\ Terminals(q)[1].body = ErrorResult("route")
         /\ q.returned = ErrorResult("route")

C10_NoOperationLeftPending ==
  \A r \in Reqs : Done(r) \/ ENABLED Step(r)

\* The step in which server.orchestrate accepts request r.
AcceptStep(r) == req[r].pc = "idle" /\ req'[r].pc # "idle"

\* C11: server.orchestrate returns the acknowledgment "accepted" with an id
\* issued to no request before, when no step of the background task has run
\* yet; the id of a request never changes, and every callback sent for the
\* request carries the acknowledged id.
C11_AcknowledgedBeforeBackgroundWork ==
  [][\A r \in Reqs :
       /\ AcceptStep(r) =>
            /\ req'[r].ack.status = "accepted"
            /\ req'[r].ack.request_id = req'[r].request_id
            /\ req'[r].request_id # 0
            /\ req'[r].request_id \notin Issued
            /\ req'[r] = [InitReq EXCEPT !.pc = "init",
                                         !.task = req'[r].task,
                                         !.request_id = req'[r].request_id,
                                         !.ack = req'[r].ack]
            /\ registry' = registry
       /\ req[r].pc # "idle" =>
            (req'[r].ack = req[r].ack /\ req'[r].request_id = req[r].request_id)
       /\ \A i \in 1..Len(req'[r].callbacks) :
            req'[r].callbacks[i].request_id = req'[r].ack.request_id]_vars

\* Both requests were acknowledged with different ids, and one of them has
\* sent its in-progress notification and its terminal callback.
C11_Witness ==
  \E r1, r2 \in Reqs :
    /\ Done(r1)
    /\ Len(req[r1].callbacks) = 2
    /\ req[r1].ack.status = "accepted"
    /\ req[r2].ack.status = "accepted"
    /\ req[r1].ack.request_id # req[r2].ack.request_id

\* The ranking decide_route computes for request r from its task and the
\* capability list it loaded.
Ranked(r) == rank_existing_subagents(req[r].task.words, req[r].subagents)

TopScore(ranked) == ranked[1].score

SecondScore(ranked) == IF Len(ranked) > 1 THEN ranked[2].score ELSE 0

\* The three outcomes as C12 words them.
IsNoMatch(ranked) == ranked = <<>> \/ TopScore(ranked) < route_min_score

IsConfident(ranked) ==
  /\ ranked # <<>>
  /\ TopScore(ranked) >= route_confident_score
  /\ TopScore(ranked) - SecondScore(ranked) >= route_confident_margin
  /\ ranked[1].matched_token_count >= 2

IsAmbiguous(ranked) == ~IsNoMatch(ranked) /\ ~IsConfident(ranked)

\* C12: decide_route puts every ranked list into exactly one of no-match
\* (empty, or top score below route_min_score: build_new), confident (top
\* score, margin over the second score and matched tokens at their
\* thresholds: match of the top candidate, without the Arbiter) and ambiguous
\* (everything else: the decision is left to the Arbiter when it is enabled).
C12_ThreeWayClassification ==
  [][\A r \in Reqs :
       (DecideStep(r) /\ req[r].task.str) =>
         LET ranked == Ranked(r)
         IN /\ ~(IsNoMatch(ranked) /\ IsConfident(ranked))
            /\ IsNoMatch(ranked) =>
                 (req'[r].branch = "build_new" /\ req'[r].pc = "synth")
            /\ IsConfident(ranked) =>
                 /\ req'[r].branch = "match"
                 /\ req'[r].subagent.id = ranked[1].subagent.id
                 /\ req'[r].subagent.name = ranked[1].subagent.name
                 /\ req'[r].asked = 0
            /\ IsAmbiguous(ranked) =>
                 IF route_llm_enabled
                 THEN req'[r].branch = NoneVal /\ req'[r].pc = "arbiter"
                 ELSE req'[r].pc = "synth"]_vars

\* A request was matched with confidence, without the Arbiter, ahead of a
\* second candidate that on its own scores below route_min_score.
C12_Witness ==
  \E r \in Reqs :
    /\ req[r].branch = "match" /\ req[r].asked = 0
    /\ Len(rank_existing_subagents(req[r].task.words, registry)) >= 2
    /\ \E i \in 1..Len(registry) :
         /\ rank_existing_subagents(req[r].task.words, <<registry[i]>>) # <<>>
         /\ IsNoMatch(rank_existing_subagents(req[r].task.words, <<registry[i]>>))

\* The step in which llm_validate_ranked_match ends its oracle call, or
\* returns without making it.
ArbiterStep(r) == req[r].pc = "arbiter" /\ req'[r].pc # "arbiter"

\* What C13 says of every step but the oracle call itself: only an ambiguous
\* ranking reaches the Arbiter, with the head of the ranked list cut at
\* route_llm_top_k; no other step calls the oracle, and never a second time.
ArbiterOnlyOnAmbiguous(r) ==
  /\ (DecideStep(r) /\ req[r].task.str) =>
       LET ranked == Ranked(r)
       IN /\ req'[r].pc = "arbiter" <=> (IsAmbiguous(ranked) /\ route_llm_enabled)
          /\ req'[r].pc = "arbiter" =>
               /\ Len(req'[r].offered) <= route_llm_top_k
               /\ Len(req'[r].offered) <= Len(ranked)
               /\ Len(req'[r].offered) = route_llm_top_k
                    \/ Len(req'[r].offered) = Len(ranked)
               /\ \A i \in 1..Len(req'[r].offered) : req'[r].offered[i] = ranked[i]
  /\ req'[r].pc = "arbiter" => req[r].pc \in {"decide", "arbiter"}
  /\ ~ArbiterStep(r) => req'[r].asked = req[r].asked
  /\ req'[r].asked <= 1

VerdictStep(r) == req[r].pc = "verdict" /\ req'[r].pc # "verdict"

\* The candidates offered whose name equals the verdict's selected_name,
\* ignoring case.
Selected(q) ==
  {i \in 1..Len(q.offered) :
     LowerText(q.offered[i].subagent.name) = LowerText(q.verdict.selected_name)}

\* C14: a verdict is accepted only when its selected_name equals, ignoring
\* case, the name of a candidate offered in that call, and the match is that
\* candidate; a verdict naming anything else, a capability of the registry
\* that was not offered included, resolves to build_new.
C14_OnlyOfferedNamesAccepted ==
  [][\A r \in Reqs :
       VerdictStep(r) =>
         /\ req'[r].branch = "match" =>
              \E i \in Selected(req[r]) :
                /\ req'[r].subagent.id = req[r].offered[i].subagent.id
                /\ req'[r].subagent.name = req[r].offered[i].subagent.name
         /\ Selected(req[r]) = {} =>
              (req'[r].branch = "build_new" /\ req'[r].pc = "synth")]_vars

\* A verdict selects, with confidence, a capability of the registry that
\* was ranked but not offered.
C14_Witness ==
  \E r \in Reqs :
    /\ req[r].pc = "verdict"
    /\ req[r].verdict.decision = "match"
    /\ req[r].verdict.confidence >= route_llm_min_confidence
    /\ Selected(req[r]) = {}
    /\ get_subagent_by_name(registry, req[r].verdict.selected_name) # NoSub
    /\ Len(rank_existing_subagents(req[r].task.words, registry)) > route_llm_top_k

\* The outcomes of the Arbiter call that C15 lists: an exception or timeout
\* (or no call at all), text that holds no JSON object, a decision other than
\* match, a confidence below route_llm_min_confidence.
Rejecting(v) ==
  \/ v.kind # "json"
  \/ v.decision # "match"
  \/ v.confidence < route_llm_min_confidence

\* C15: every rejecting outcome of the Arbiter call makes
\* llm_validate_ranked_match return no match without raising: decide_route
\* returns build_new and the request goes on to synthesis without an error.
C15_ArbiterFailureFallsThrough ==
  [][\A r \in Reqs :
       (VerdictStep(r) /\ Rejecting(req[r].verdict)) =>
         /\ req'[r].branch = "build_new"
         /\ req'[r].pc = "synth"
         /\ req'[r].error = NoneVal
         /\ req'[r].subagent = NoSub]_vars

\* A request went on to synthesis after its Arbiter call.
C15_Witness ==
  \E r \in Reqs :
    /\ req[r].pc = "synth" /\ req[r].asked = 1
    /\ req[r].branch = "build_new" /\ req[r].error = NoneVal

\* A text all of whose words are stop words or at most two characters long
\* (the empty text included).
WithoutTokens(task) ==
  /\ task.str
  /\ \A i \in 1..Len(task.words) :
       Len(Lower(task.words[i])) <= 2 \/ Lower(task.words[i]) \in STOP_WORDS

\* C16: a task whose text has no token ranks no capability, whatever the
\* capability list, and is routed to build_new without an Arbiter call.
C16_EmptyTokensBuildNew ==
  [][\A r \in Reqs :
       (DecideStep(r) /\ WithoutTokens(req[r].task)) =>
         /\ Ranked(r) = <<>>
         /\ req'[r].branch = "build_new"
         /\ req'[r].pc = "synth"
         /\ req'[r].asked = 0]_vars

\* A task of stop words only was routed to build_new on a registry of four
\* capabilities, one of which has a stop word in its description.
C16_Witness ==
  \E r \in Reqs :
    /\ req[r].task = Task(<<"the", "my">>)
    /\ req[r].branch = "build_new" /\ req[r].pc = "synth"
    /\ Len(registry) = MaxRows
    /\ \E i \in 1..Len(registry) : "the" \in Range(registry[i].description)

\* The places of capability sa in a ranked list.
PlacesOf(ranked, sa) == {i \in 1..Len(ranked) : ranked[i].subagent = sa}

\* C17: the list rank_existing_subagents returns for a task text and a
\* capability list is sorted non-increasing by score, holds no candidate
\* with score 0 or less, and holds every capability of positive score
\* exactly once (and no other).
C17_RankingSortedAndPositive ==
  \A r \in Reqs :
    (req[r].pc = "decide" /\ req[r].task.str) =>
      LET ranked == Ranked(r)
          subagents == req[r].subagents
      IN /\ \A i, j \in 1..Len(ranked) :
              i < j => ranked[i].score >= ranked[j].score
         /\ \A i \in 1..Len(ranked) : ranked[i].score > 0
         /\ \A k \in 1..Len(subagents) :
              Cardinality(PlacesOf(ranked, subagents[k]))
                = IF RankItem(tokenize(req[r].task.words), subagents[k]).score > 0
                  THEN 1 ELSE 0
         /\ \A i \in 1..Len(ranked) :
              ranked[i].subagent \in Range(subagents)

\* A ranking of three candidates with different scores, out of four
\* capabilities, whose order is not the order of the capability list.
C17_Witness ==
  \E r \in Reqs :
    /\ req[r].pc = "decide" /\ req[r].task.str
    /\ Len(req[r].subagents) = 4
    /\ Len(Ranked(r)) = 3
    /\ Ranked(r)[1].subagent # req[r].subagents[1]
    /\ Ranked(r)[1].score > Ranked(r)[3].score

AnalysisErrors == {"analysis_failed", "analysis_not_json", "analysis_incomplete"}

\* The step in which _build_generated_subagent_spec returns or raises.
SynthStep(r) == req[r].pc = "synth" /\ req'[r].pc # "synth"

\* The positions of a request that has not got past synthesis.
BeforeStore == {"idle", "init", "load", "decide", "arbiter", "verdict", "synth"}

\* C18: a synthesis whose oracle call fails, whose output is unparsable or
\* whose description or instructions are empty fails the request, which has
\* then made no insert or update in the registry: no step of the request up
\* to and after the failure changes the registry, a spec that goes on to be
\* stored has both fields, and no persisted capability lacks one.
C18_UnusableSpecNeverPersisted ==
  [][\A r \in Reqs :
       /\ SynthStep(r) =>
            \/ /\ req'[r].pc = "failReport"
               /\ req'[r].error \in AnalysisErrors
            \/ /\ req'[r].error = NoneVal
               /\ req'[r].generated.description # <<>>
               /\ req'[r].generated.system_prompt.base # ""
       /\ (req[r].pc \in BeforeStore /\ req'[r] # req[r]) => registry' = registry
       /\ req'[r].error \in AnalysisErrors =>
            /\ req'[r].pc \in {"failReport", "done"}
            /\ req'[r].subagent = NoSub /\ req'[r].generated = NoSub
            /\ req'[r].gate = "unchecked" /\ req'[r].execs = <<>>
            /\ req'[r] # req[r] => registry' = registry
            /\ req'[r].pc = "done" =>
                 /\ Len(Terminals(req'[r])) = 1
                 /\ Terminals(req'[r])[1].status = "failed"
                 /\ req'[r].returned = ErrorResult(req'[r].error)
       /\ \A i \in 1..Len(registry') :
            /\ registry'[i].description # <<>>
            /\ registry'[i].system_prompt.base # ""]_vars

\* A request whose synthesized spec was incomplete has reported its failure,
\* while the registry holds the capability another request stored.
C18_Witness ==
  \E r \in Reqs :
    /\ Done(r)
    /\ req[r].error = "analysis_incomplete"
    /\ Terminals(req[r])[1].status = "failed"
    /\ Terminals(req[r])[1].delivered
    /\ Len(registry) = 1

\* The persisted capabilities whose status or required provider a step
\* changes.
AuthFieldsChanged ==
  {i \in 1..Len(registry) :
     \/ registry'[i].status # registry[i].status
     \/ registry'[i].required_provider # registry[i].required_provider}

\* The step is the auth-status write of the Credential Gate of request r.
GateWrite(r) == req[r].pc = "authWrite" /\ req'[r] # req[r]

\* C19: the status and the required provider of a persisted capability
\* change only in the Credential Gate step of some request, never in a
\* Routing, Synthesizing, Executing or Reporting step.
C19_AuthFieldsWrittenOnlyByGate ==
  [][AuthFieldsChanged # {} => \E r \in Reqs : GateWrite(r)]_vars

\* C20: the persisted capabilities only grow: every step keeps every row,
\* with its id, name, description and instructions, and adds at most new
\* rows whose ids differ from all ids in use.
C20_RegistryOnlyGrows ==
  [][/\ Len(registry') >= Len(registry)
     /\ \A i \in 1..Len(registry) :
          /\ registry'[i].id = registry[i].id
          /\ registry'[i].name = registry[i].name
          /\ registry'[i].description = registry[i].description
          /\ registry'[i].system_prompt = registry[i].system_prompt
     /\ \A i, j \in 1..Len(registry') :
          i # j => registry'[i].id # registry'[j].id]_vars

\* Two capabilities are persisted and the auth fields of one of them have
\* just been updated.
C20_Witness ==
  \E r \in Reqs :
    /\ Len(registry) = 2
    /\ req[r].pc = "authDone"
    /\ req[r].updated
    /\ RowById(registry, req[r].subagent.id).status = "needs_api_key"

\* ---------------------------------------------------------------- C26
\* The sort key of a candidate, as a tuple.
SortKey(item) ==
  <<item.score, item.matched_token_count, Cardinality(item.name_hits)>>

\* Tuple a is greater than tuple b in the lexicographic order.
LexGreater(a, b) ==
  \E k \in 1..3 : a[k] > b[k] /\ \A m \in 1..(k - 1) : a[m] = b[m]

\* The place of a capability in the list get_all_subagents returned.
PlaceIn(subagents, sa) == CHOOSE k \in 1..Len(subagents) : subagents[k] = sa

\* C26: the ranked list is in descending order of the triple (score,
\* matchedTokenCount, number of name hits), and candidates whose triples are
\* equal keep the order they have in the capability list.
C26_RankOrderAndStability ==
  \A r \in Reqs :
    (req[r].pc = "decide" /\ req[r].task.str) =>
      LET ranked == Ranked(r)
          subagents == req[r].subagents
      IN \A i, j \in 1..Len(ranked) :
           i < j =>
             \/ LexGreater(SortKey(ranked[i]), SortKey(ranked[j]))
             \/ /\ SortKey(ranked[i]) = SortKey(ranked[j])
                /\ PlaceIn(subagents, ranked[i].subagent)
                     < PlaceIn(subagents, ranked[j].subagent)

\* A ranking in which two candidates of equal triples stand in list order,
\* and two candidates of equal score and matched-token count stand by their
\* number of name hits, against list order.
C26_Witness ==
  \E r \in Reqs :
    /\ req[r].pc = "decide" /\ req[r].task.str
    /\ LET ranked == Ranked(r)
           subagents == req[r].subagents
       IN /\ \E i, j \in 1..Len(ranked) :
               i < j /\ SortKey(ranked[i]) = SortKey(ranked[j])
          /\ \E i, j \in 1..Len(ranked) :
               /\ i < j
               /\ ranked[i].score = ranked[j].score
               /\ ranked[i].matched_token_count = ranked[j].matched_token_count
               /\ Cardinality(ranked[i].name_hits) > Cardinality(ranked[j].name_hits)
               /\ PlaceIn(subagents, ranked[i].subagent)
                    > PlaceIn(subagents, ranked[j].subagent)

\* ---------------------------------------------------------------- C27
\* C27: for every candidate of the ranked list, nameHits is the set of task
\* tokens among the tokens of the capability's name, descriptionHits the set
\* of task tokens among the tokens of its description, score is
\* 3 * |nameHits| + |descriptionHits|, and matchedTokenCount is the size of
\* the union of the two sets.
C27_CandidateMetrics ==
  \A r \in Reqs :
    (req[r].pc = "decide" /\ req[r].task.str) =>
      LET ranked == Ranked(r)
          T == tokenize(req[r].task.words)
      IN \A i \in 1..Len(ranked) :
           LET it == ranked[i]
               N == tokenize(it.subagent.name)
               D == tokenize(it.subagent.description)
           IN /\ it.name_hits = {t \in T : t \in N}
              /\ it.description_hits = {t \in T : t \in D}
              /\ it.score = 3 * Cardinality({t \in T : t \in N})
                              + Cardinality({t \in T : t \in D})
              /\ it.matched_token_count
                   = Cardinality({t \in T : t \in N \/ t \in D})

\* A candidate with a task token both in its name and in its description,
\* and another task token in one of them only.
C27_Witness ==
  \E r \in Reqs :
    /\ req[r].pc = "decide" /\ req[r].task.str
    /\ \E i \in 1..Len(Ranked(r)) :
         LET it == Ranked(r)[i]
         IN /\ it.name_hits \cap it.description_hits # {}
            /\ it.name_hits # it.description_hits
            /\ it.matched_token_count
                 < Cardinality(it.name_hits) + Cardinality(it.description_hits)

\* ---------------------------------------------------------------- C28
\* C28: with the Arbiter disabled, a Routing step on an ambiguous ranking
\* resolves to build_new and goes on to synthesis, and no call of the
\* Arbiter's oracle is made for the request.
C28_DisabledArbiterBuildsNew ==
  [][\A r \in Reqs :
       (~route_llm_enabled /\ DecideStep(r) /\ req[r].task.str
          /\ IsAmbiguous(Ranked(r)))
       => /\ req'[r].branch = "build_new"
          /\ req'[r].pc = "synth"
          /\ req'[r].asked = 0
          /\ req'[r].offered = <<>>]_vars

\* With the Arbiter disabled, a request whose ranking was ambiguous has been
\* routed to build_new without any oracle call.
C28_Witness ==
  \E r \in Reqs :
    /\ ~route_llm_enabled
    /\ req[r].pc = "synth"
    /\ req[r].branch = "build_new"
    /\ req[r].asked = 0
    /\ IsAmbiguous(rank_existing_subagents(req[r].task.words, registry))

\* ---------------------------------------------------------------- C21
\* The declared results of a stream that are not empty, in arrival order.
DeclaredResults(events) ==
  SelectSeq([i \in 1..Len(events) |-> events[i].result], LAMBDA x : x # "")

\* The partial texts of a stream, in arrival order: of each event its text,
\* or its declared result when it carries no text.
PartialTexts(events) ==
  SelectSeq([i \in 1..Len(events) |->
               IF events[i].text # "" THEN events[i].text ELSE events[i].result],
            LAMBDA x : x # "")

\* The step in which the backend's stream of request r ends within the
\* timeout.
StreamConsumed(r) ==
  /\ req[r].pc = "exec"
  /\ req'[r].pc = "report"
  /\ req'[r].backend.kind = "stream"

\* C21: when a stream ends within the timeout, the result is the last
\* declared result that is not empty, if there is one; else the partial
\* texts in arrival order, one per line, if there is any; else the no-output
\* fallback.
C21_ConsumePrecedence ==
  [][\A r \in Reqs :
       StreamConsumed(r) =>
         LET events == req'[r].backend.events
             declared == DeclaredResults(events)
             texts == PartialTexts(events)
             result == req'[r].result
         IN IF declared # <<>>
            THEN result = [kind |-> "output", lines |-> <<declared[Len(declared)]>>]
            ELSE IF texts # <<>>
            THEN result = [kind |-> "output", lines |-> texts]
            ELSE /\ result.kind = "fallback"
                 /\ result.reason = "no_output"]_vars

\* The stream of the text chunks a, b without declared result was reported
\* as the two lines a, b.
C21_Witness ==
  \E r \in Reqs :
    /\ Done(r)
    /\ req[r].backend = [kind |-> "stream",
                         events |-> <<Event("a", ""), Event("b", "")>>]
    /\ req[r].returned = [kind |-> "output", lines |-> <<"a", "b">>]
    /\ Terminals(req[r])[1].body = req[r].returned

\* ---------------------------------------------------------------- C22
\* The payload c of request q has the keys C22 names, with the values of
\* the request.
PayloadComplete(q, c) ==
  /\ c.request_id = q.request_id
  /\ c.status \in {"completed", "missing_managed_api_key", "failed"}
  /\ c.task_description = q.task
  /\ c.body # NoResult
  /\ c.branch \in {"match", "build_new"}
  /\ json_loads(q.metadata).type = "dict" => c.metadata = json_loads(q.metadata)

\* C22: every terminal callback of a request carries the request id, a
\* status, the task description, a result or an error, the routing branch,
\* and the caller's metadata when the caller passed a JSON object.
C22_TerminalPayloadComplete ==
  \A r \in Reqs :
    \A i \in 1..Len(Terminals(req[r])) :
      PayloadComplete(req[r], Terminals(req[r])[i])

\* ---------------------------------------------------------------- C23
IsProgress(c) == c.kind = "progress"

\* The in-progress notifications handed to the notification channel.
Progresses(q) == SelectSeq(q.callbacks, IsProgress)

\* The credential lookup of the request returned a stored credential.
CredentialFound(q) == q.gate = "ready"

\* C23 as stated: a request whose credential was found has, when it is done,
\* the status ready persisted for its capability, an in-progress
\* notification attempted, the backend invoked with the credential, and one
\* terminal callback, of status completed.
C23_CredentialedRunHasAllEvents ==
  \A r \in Reqs :
    (Done(r) /\ CredentialFound(req[r])) =>
      /\ RowById(registry, req[r].subagent.id).status = "ready"
      /\ Len(Progresses(req[r])) = 1
      /\ Len(req[r].execs) = 1 /\ req[r].execs[1].api_key
      /\ Len(Terminals(req[r])) = 1
      /\ Terminals(req[r])[1].status = "completed"

\* The step in which the backend is invoked for request r.
BackendInvoked(r) == Len(req'[r].execs) > Len(req[r].execs)

\* The step in which a terminal callback of status completed is handed to
\* the notification channel.
CompletedSent(r) ==
  /\ Len(req'[r].callbacks) > Len(req[r].callbacks)
  /\ req'[r].callbacks[Len(req'[r].callbacks)].kind = "terminal"
  /\ req'[r].callbacks[Len(req'[r].callbacks)].status = "completed"

\* C23, amended: for a capability that requires a provider, (1) the write
\* of the status made after the credential was found leaves the persisted
\* row ready whenever it returns a row, (2) the in-progress notification is
\* attempted only after the credential was found and, for a persisted
\* capability, after that write was attempted, (3) the backend is invoked
\* only after the credential was found and the notification attempted, and
\* with the credential injected, (4) a terminal callback of status completed
\* is sent only after the Executing step, which invoked the backend unless
\* the SDK is absent.
C23_CredentialedOrder ==
  [][\A r \in Reqs :
       LET q == req[r]
           n == req'[r]
       IN /\ (q.pc = "authWrite" /\ CredentialFound(q) /\ n.updated)
               => RowById(registry', q.subagent.id).status = "ready"
          /\ (q.pc # "progress" /\ n.pc = "progress")
               => /\ CredentialFound(n)
                  /\ \/ q.pc = "authDone"
                     \/ q.pc = "credLookup" /\ q.subagent.id = 0
          /\ (BackendInvoked(r) /\ q.subagent.required_provider # NoneVal)
               => /\ CredentialFound(q)
                  /\ Len(Progresses(q)) = 1
                  /\ n.execs[Len(n.execs)].api_key
          /\ (CompletedSent(r) /\ q.subagent.required_provider # NoneVal)
               => /\ CredentialFound(q)
                  /\ Len(Progresses(q)) = 1
                  /\ q.backend # NoBackend
                  /\ q.backend.kind # "sdk_none" =>
                       (Len(q.execs) = 1 /\ q.execs[1].api_key)]_vars

\* A request whose credential was found has written the status ready to
\* its persisted capability, sent the in-progress notification, invoked the
\* backend with the credential and then delivered status completed.
C23_Witness ==
  \E r \in Reqs :
    /\ Done(r) /\ CredentialFound(req[r])
    /\ req[r].subagent.id # 0
    /\ RowById(registry, req[r].subagent.id).status = "ready"
    /\ Len(req[r].callbacks) = 2
    /\ req[r].callbacks[1].kind = "progress" /\ req[r].callbacks[1].delivered
    /\ req[r].callbacks[2].kind = "terminal"
    /\ req[r].callbacks[2].status = "completed" /\ req[r].callbacks[2].delivered
    /\ Len(req[r].execs) = 1 /\ req[r].execs[1].api_key
    /\ req[r].backend.kind = "stream"

\* ---------------------------------------------------------------- C24
\* The words that hint at a provider.
HintWords == UNION {PROVIDER_HINTS[p] : p \in DOMAIN PROVIDER_HINTS}

\* The step in which request r enters the Credential Gate with the
\* capability it will run.
EntersGate(r) ==
  /\ req[r].pc \in {"decide", "verdict", "lookup", "reuse", "insSelect", "insInsert"}
  /\ req'[r].pc \in {"credLookup", "exec"}

\* The pcs of the credential lookup, the auth-status write and the
\* in-progress notification.
GatePcs == {"credLookup", "authWrite", "authDone", "progress"}

\* C24: a request whose capability resolves to no provider (none stored and
\* no hint word in task text, name or description) enters the gate straight
\* at execution, without any lookup, auth-status write or in-progress
\* notification, then or later; entering the gate with a matched capability
\* and executing leave the registry unchanged.
C24_NoProviderStraightToExecution ==
  [][\A r \in Reqs :
       LET q == req[r]
           n == req'[r]
           none == n.subagent.required_provider = NoneVal
       IN /\ (EntersGate(r) /\ none)
               => /\ n.pc = "exec"
                  /\ n.gate = "unchecked"
                  /\ n.callbacks = q.callbacks
                  /\ Range(LowerText(q.task.words \o n.subagent.name
                                       \o n.subagent.description))
                       \cap HintWords = {}
                  /\ q.pc \in {"decide", "verdict"} => registry' = registry
          /\ (EntersGate(r) /\ ~none) => n.pc = "credLookup"
          /\ (q.pc = "exec" /\ q.subagent.required_provider = NoneVal /\ n # q)
               => /\ registry' = registry
                  /\ Progresses(n) = <<>>
                  /\ n.gate = "unchecked"
          /\ n.pc \in GatePcs => n.subagent.required_provider # NoneVal]_vars

\* A matched capability without provider was run without credential and
\* reported, with the terminal callback as the request's only callback.
C24_Witness ==
  \E r \in Reqs :
    /\ Done(r)
    /\ req[r].branch = "match"
    /\ req[r].subagent.required_provider = NoneVal
    /\ req[r].gate = "unchecked"
    /\ Len(req[r].execs) = 1 /\ ~req[r].execs[1].api_key
    /\ Len(req[r].callbacks) = 1
    /\ req[r].callbacks[1].status = "completed"

\* ---------------------------------------------------------------- C25
\* The values orchestrate returns that are strings.
StringKinds == {"output", "fallback", "missing_key_message", "error"}

LastCallback(q) == q.callbacks[Len(q.callbacks)]

\* C25 as stated: a request in which an exception was raised, in metadata
\* parsing, at the initialisation of the backend's query or anywhere else,
\* has reported status failed when it is done.
C25_EveryExceptionFails ==
  \A r \in Reqs :
    (/\ Done(r)
     /\ \/ json_loads(req[r].metadata).type = "JSONDecodeError"
        \/ req[r].backend.kind = "init_raises"
        \/ req[r].error # NoneVal)
    => LastCallback(req[r]).status = "failed"

\* The exceptions that reach the except handler of orchestrate from each
\* suspension point.
EscapingErrors(pc) ==
  CASE pc = "decide" -> {"route"}
    [] pc = "synth" -> {"analysis_failed", "analysis_not_json", "analysis_incomplete"}
    [] pc \in {"storeKey", "credLookup"} -> {"registry"}
    [] pc = "exec" -> {"backend"}
    [] pc = "report" -> {"delivery"}
    [] OTHER -> {}

\* C25, amended: an exception that reaches the except handler of
\* orchestrate (from the routing decision, synthesis, a credential lookup,
\* the backend's stream or the delivery of the computed result) is reported
\* with status failed, delivered or not, and orchestrate then returns the
\* error string; every other exception is absorbed where it arises and does
\* not take the Failed path; whatever happens, a request that is done has
\* returned a string.
C25_EscapingExceptionsReportFailed ==
  [][\A r \in Reqs :
       LET q == req[r]
           n == req'[r]
       IN /\ (q.pc # "failReport" /\ n.pc = "failReport")
               => n.error \in EscapingErrors(q.pc)
          /\ q.pc = "failReport" => ENABLED ReportFailure(r)
          /\ (q.pc = "failReport" /\ n # q)
               => /\ n.pc = "done"
                  /\ Len(n.callbacks) = Len(q.callbacks) + 1
                  /\ LastCallback(n).kind = "terminal"
                  /\ LastCallback(n).status = "failed"
                  /\ LastCallback(n).body = ErrorResult(q.error)
                  /\ n.returned = ErrorResult(q.error)
          /\ (q.pc # "done" /\ n.pc = "done") => n.returned.kind \in StringKinds]_vars

\* A request with metadata that is no JSON, whose backend stream raised,
\* has returned the error string although the failure callback could not be
\* sent.
C25_Witness ==
  \E r \in Reqs :
    /\ Done(r)
    /\ json_loads(req[r].metadata).type = "JSONDecodeError"
    /\ req[r].error = "backend"
    /\ Len(Terminals(req[r])) = 1
    /\ Terminals(req[r])[1].status = "failed"
    /\ ~Terminals(req[r])[1].delivered
    /\ req[r].returned = ErrorResult("backend")

\* ---------------------------------------------------------------- C29
\* The pcs of _store_generated_subagent: the Synthesizer's oracle call, the
\* credential lookup for the status at creation, the name lookup, the reuse
\* of an existing capability, and insert_subagent.
StorePcs == {"synth", "storeKey", "lookup", "reuse", "insSelect", "insInsert"}

\* C29: the Synthesizer's oracle is called, and insert_subagent entered,
\* only by a request whose decision was build_new; a request whose decision
\* was match stays matched, never enters _store_generated_subagent, and
\* none of its steps adds a row to the registry.
C29_SynthesisOnlyOnBuildNew ==
  [][\A r \in Reqs :
       LET q == req[r]
           n == req'[r]
       IN /\ n.pc \in StorePcs => n.branch = "build_new"
          /\ q.branch = "match"
               => /\ n.branch = "match"
                  /\ n.pc \notin StorePcs
                  /\ n # q => Len(registry') = Len(registry)]_vars

\* A request was matched to the capability another request had synthesized
\* and inserted, and the registry still holds that one row.
C29_Witness ==
  \E r, b \in Reqs :
    /\ Done(r) /\ req[r].branch = "match"
    /\ Done(b) /\ req[b].branch = "build_new"
    /\ Len(registry) = 1
    /\ req[r].subagent.id = registry[1].id
    /\ req[b].subagent.id = registry[1].id
    /\ Len(req[r].execs) = 1

\* ---------------------------------------------------------------- C30
\* The step in which get_all_subagents answers request r, or raises.
LoadStep(r) == req[r].pc = "load" /\ req'[r].pc = "decide"

MatchReturned(r) == req[r].branch # "match" /\ req'[r].branch = "match"

\* The rows of the capability list with the id of the capability returned.
ReturnedRows(r) == {k \in 1..Len(registry) : registry[k].id = req'[r].subagent.id}

\* C36: a capability returned with branch match is a row of the list the
\* request was given, and its score against the task is at least
\* route_min_score, whatever the Arbiter answered.
C36_MatchScoresAtLeastMin ==
  [][\A r \in Reqs :
       MatchReturned(r) =>
         /\ ReturnedRows(r) # {}
         /\ \A k \in ReturnedRows(r) :
              RankItem(tokenize(req[r].task.words), registry[k]).score
                >= route_min_score]_vars

\* ---------------------------------------------------------------- C31
\* The provider whose hint the task text contains, stripe before twilio.
HintedProvider(ws) ==
  IF PROVIDER_HINTS["stripe"] \cap Range(LowerText(ws)) # {} THEN "stripe"
  ELSE IF PROVIDER_HINTS["twilio"] \cap Range(LowerText(ws)) # {} THEN "twilio"
  ELSE NoneVal

\* The step in which the INSERT of request r stores a row.
RowInserted(r) ==
  /\ req[r].pc = "insInsert" /\ req'[r].pc # "insInsert"
  /\ Len(registry') = Len(registry) + 1

ProgressStep(r) == req[r].pc = "progress" /\ req'[r].pc # "progress"

\* A request without its position and its callbacks.
BesidesCallbacks(q) == [q EXCEPT !.pc = "", !.callbacks = <<>>]

\* Two requests that are done ran the same capability on the same task with
\* the same answers of the backend and of the terminal delivery, and the
\* in-progress notification of exactly one of them was delivered.
ProgressTwins(a, b) ==
  /\ Done(a) /\ Done(b)
  /\ req[a].task = req[b].task
  /\ req[a].subagent = req[b].subagent
  /\ req[a].backend = req[b].backend
  /\ Len(Progresses(req[a])) = 1 /\ Len(Progresses(req[b])) = 1
  /\ Progresses(req[a])[1].delivered /\ ~Progresses(req[b])[1].delivered
  /\ Terminals(req[a])[1].delivered = Terminals(req[b])[1].delivered

\* C37: whether the send of the in-progress notification succeeds or not,
\* the request goes on to execution with nothing changed but the record of
\* the send; and two requests that differ only in the delivery of that
\* notification end with the same result, status, error and terminal
\* callbacks.
C37_ProgressFailureSwallowed ==
  [][/\ \A r \in Reqs :
          ProgressStep(r) =>
            /\ req'[r].pc = "exec"
            /\ BesidesCallbacks(req'[r]) = BesidesCallbacks(req[r])
            /\ Len(req'[r].callbacks) = Len(req[r].callbacks) + 1
            /\ LastCallback(req'[r]).kind = "progress"
     /\ \A a, b \in Reqs :
          ProgressTwins(a, b) =>
            /\ req[a].result = req[b].result
            /\ req[a].status = req[b].status
            /\ req[a].error = req[b].error
            /\ req[a].returned = req[b].returned
            /\ Len(Terminals(req[a])) = Len(Terminals(req[b]))
            /\ \A i \in 1..Len(Terminals(req[a])) :
                 Terminals(req[a])[i].status = Terminals(req[b])[i].status]_vars

\* Of two requests that ran the same capability on the same task, one had
\* its in-progress notification delivered and the other had not, and both
\* delivered the same completed result.
C37_Witness ==
  \E a, b \in Reqs :
    /\ ProgressTwins(a, b)
    /\ req[b].status = "completed"
    /\ req[b].backend.kind = "stream"
    /\ req[b].returned = req[a].returned
    /\ Terminals(req[b])[1].delivered

\* ---------------------------------------------------------------- C34
\* C34: a persisted capability whose required_provider is not null keeps a
\* non-null required_provider in every step.
C34_ProviderNeverBackToNull ==
  [][\A k \in 1..Len(registry) :
       registry[k].required_provider # NoneVal =>
         registry'[k].required_provider # NoneVal]_vars

\* ---------------------------------------------------------------- C35
\* The persisted capabilities that request r took through the credential
\* check.
CheckedRows(r) ==
  {k \in 1..Len(registry) :
     req[r].gate # "unchecked" /\ registry[k].id = req[r].subagent.id}

\* A request has finished when it returned or was left waiting forever.
Finished(r) == req[r].pc \in {"done", "hung"}

\* The status that the credential store prescribes for a provider.
StatusFor(provider) ==
  IF provider \in apiKeys THEN "ready" ELSE "needs_api_key"

\* C35: once every request has finished, each persisted capability that one
\* of them took through the credential check is ready if a credential for
\* its required_provider is stored and needs_api_key otherwise.
C35_StatusConsistentAtQuiescence ==
  (\A r \in Reqs : Finished(r)) =>
    \A r \in Reqs : \A k \in CheckedRows(r) :
      registry[k].status = StatusFor(registry[k].required_provider)

\* The same, for the capabilities whose required_provider was not written
\* back to null.
C35_StatusConsistentUnlessNull ==
  (\A r \in Reqs : Finished(r)) =>
    \A r \in Reqs : \A k \in CheckedRows(r) :
      registry[k].required_provider # NoneVal =>
        registry[k].status = StatusFor(registry[k].required_provider)

\* ---------------------------------------------------------------- C33
\* The positions of a request relative to its Routing decision.
BeforeRouting == {"idle", "init", "load", "decide"}

AtArbiter(q) == q.pc \in {"arbiter", "verdict"}

Decided(q) == q.pc \notin BeforeRouting /\ ~AtArbiter(q)

C32_NameWellFormed ==
  naming.pc = "named" =>
    /\ naming.name # <<>>
    /\ \A i \in 1..Len(naming.name) : naming.name[i] \in SlugChars \cup {"_"}
    /\ StartsWith(naming.name, AutoPrefix)
    /\ Len(naming.name) <= NameLimit

\* A name that was cut at the limit: no text of NameTexts has a z, the
\* lower-cased Z of the part Z9, as its last character.
C32_Witness ==
  /\ naming.pc = "named"
  /\ Len(naming.name) = NameLimit
  /\ naming.name[NameLimit] = "z"

\* ---------------------------------------------------------------- C38
\* The flag _INITIALIZED is set only while a pool exists.
C38_InitializedImpliesPool == db.INITIALIZED => db.POOL # NoPool

\* C38: without close_db, the callers of init_db create at most one pool,
\* and _INITIALIZED is set only while a pool exists.
C38_PoolCreatedAtMostOnce ==
  /\ db.created <= 1
  /\ C38_InitializedImpliesPool

====
